---------------------------- MODULE Spec2Model ----------------------------
(***************************************************************************)
(* Model of the order-prediction and NL-to-SQL pipelines of tkm0409/som:   *)
(*   order_prediction_sql.py, SOM_NEW/som_backend/main.py,                 *)
(*   order_prediction.py, order_prediction_api.py, nl_to_sql.py.           *)
(*                                                                         *)
(* Texts (LLM responses, SQL, names) are TLA+ strings handled character by *)
(* character.  The grave accent U+0060 cannot be written inside a TLA+     *)
(* string literal, so it is written ^ in every text of this module: the    *)
(* code fence of the source is FENCE == "^^^".  No modelled text contains  *)
(* a real circumflex.                                                      *)
(***************************************************************************)
EXTENDS Integers, Sequences, FiniteSets, TLC

VARIABLES
    pc,                  \* position of the running pipeline
    variant,             \* which source file's version of the function runs
    api_key,             \* whether an API key is configured (GOOGLE_API_KEY / api_key)
    order_number,        \* the order number a /predict request asks for
    (* prepare_prompt *)
    df,                  \* the record set (None or a sequence of rows)
    selected_record,     \* the target row (None or a row)
    prompt,              \* what prepare_prompt returned (None or a record)
    (* get_prediction *)
    llm,                 \* outcome of model.generate_content / response.text
    prediction,          \* outcome of get_prediction: [raised, value]
    (* nl_to_sql and execute_query_with_user_feedback *)
    schema_rows,         \* outcome of the two metadata fetches
    schema_context,      \* what prepare_schema_context returned
    sql_result,          \* outcome of nl_to_sql: [raised, value, branch]
    db,                  \* outcome the database gives to execute_sql_query
    sent,                \* the statements sent to the database, in order
    outcome,             \* what execute_query_with_user_feedback returned
    llm_calls,           \* number of LLM requests issued so far
    conns                \* connections: [opened, closed]

vars == <<pc, variant, api_key, order_number, df, selected_record, prompt, llm, prediction,
          schema_rows, schema_context, sql_result, db, sent, outcome,
          llm_calls, conns>>

None == [none |-> TRUE]

Min(a, b) == IF a <= b THEN a ELSE b

\* the least element of a non-empty set of integers
MinOf(S) == CHOOSE x \in S : \A y \in S : x <= y

\* the greatest element of a non-empty set of integers
MaxOf(S) == CHOOSE x \in S : \A y \in S : y <= x

(***************************************************************************)
(* Characters and strings.                                                 *)
(***************************************************************************)
FENCE == "^^^"

Ch(s, i) == IF i >= 1 /\ i <= Len(s) THEN SubSeq(s, i, i) ELSE ""

\* s[i:] of Python (1-based i)
From(s, i) == SubSeq(s, i, Len(s))

\* s.startswith(p, i-1)
StartsAt(s, i, p) == i >= 1 /\ i + Len(p) - 1 <= Len(s) /\ SubSeq(s, i, i + Len(p) - 1) = p

UpperLetters == "ABCDEFGHIJKLMNOPQRSTUVWXYZ"
LowerLetters == "abcdefghijklmnopqrstuvwxyz"

\* str.lower() on one character
LowerCh(c) ==
    IF \E k \in 1..26 : Ch(UpperLetters, k) = c
    THEN Ch(LowerLetters, CHOOSE k \in 1..26 : Ch(UpperLetters, k) = c)
    ELSE c

RECURSIVE LowerFrom(_, _)
LowerFrom(s, i) == IF i > Len(s) THEN "" ELSE LowerCh(Ch(s, i)) \o LowerFrom(s, i + 1)

\* str.lower()
Lower(s) == LowerFrom(s, 1)

\* Python's `p in s`
Contains(p, s) == \E i \in 1..(Len(s) - Len(p) + 1) : StartsAt(s, i, p)

\* the whitespace class \s of re, and the characters str.strip() removes
IsSpace(c) == c \in {" ", "\t", "\n", "\r", "\f"}

\* str.strip()
Strip(s) ==
    LET keep == {i \in 1..Len(s) : ~IsSpace(Ch(s, i))}
    IN  IF keep = {} THEN ""
        ELSE SubSeq(s, MinOf(keep), MaxOf(keep))

\* the end of a run of characters of s starting at i, given the set of the
\* indices >= i where the run cannot continue
RunEnd(s, i, stop) ==
    IF stop = {} THEN (IF i > Len(s) THEN i ELSE Len(s) + 1) ELSE MinOf(stop)


(***************************************************************************)
(* re.sub of the two fence patterns (get_prediction, nl_to_sql).           *)
(***************************************************************************)
\* the end of a run of \s starting at i
SkipSpace(s, i) == RunEnd(s, i, {j \in i..Len(s) : ~IsSpace(Ch(s, j))})

\* the start of the leftmost occurrence of p in s at or after i, 0 if none
Find(s, i, p) ==
    LET hits == {j \in i..Len(s) : StartsAt(s, j, p)}
    IN  IF hits = {} THEN 0 ELSE MinOf(hits)

RECURSIVE SubJsonFenceFrom(_, _)
\* s[i:] with every leftmost non-overlapping match of ^^^json\s* removed
SubJsonFenceFrom(s, i) ==
    LET j == Find(s, i, FENCE \o "json")
    IN  IF j = 0 THEN From(s, i)
        ELSE SubSeq(s, i, j - 1) \o SubJsonFenceFrom(s, SkipSpace(s, j + Len(FENCE) + 4))

RECURSIVE SubFenceFrom(_, _)
\* s[i:] with every leftmost non-overlapping match of ^^^ removed
SubFenceFrom(s, i) ==
    LET j == Find(s, i, FENCE)
    IN  IF j = 0 THEN From(s, i)
        ELSE SubSeq(s, i, j - 1) \o SubFenceFrom(s, j + Len(FENCE))

\* response_text = re.sub(r'^^^json\s*', '', response.text)
\* response_text = re.sub(r'^^^', '', response_text)
StripFences(text) == SubFenceFrom(SubJsonFenceFrom(text, 1), 1)

(***************************************************************************)
(* json.loads, as CPython's json.decoder computes it on a str: the values  *)
(* are tagged records [t, s, items]; an object keeps its members in source *)
(* order and a lookup takes the last one (dict semantics).                 *)
(***************************************************************************)
JStr(x)   == [t |-> "str",  s |-> x,  items |-> <<>>]
JNum(x)   == [t |-> "num",  s |-> x,  items |-> <<>>]
JLit(x)   == [t |-> "lit",  s |-> x,  items |-> <<>>]   \* null, true, false
JArr(xs)  == [t |-> "arr",  s |-> "", items |-> xs]
JObj(ms)  == [t |-> "obj",  s |-> "", items |-> ms]     \* ms: <<[k, v], ...>>
JNull     == JLit("null")

POk(v, p) == [ok |-> TRUE,  val |-> v,     pos |-> p]
PFail(p)  == [ok |-> FALSE, val |-> JNull, pos |-> p]

\* json.decoder.WHITESPACE: [ \t\n\r]*
IsJsonWs(c) == c \in {" ", "\t", "\n", "\r"}

SkipWs(s, i) == RunEnd(s, i, {j \in i..Len(s) : ~IsJsonWs(Ch(s, j))})

IsDigit(c) == c \in {"0", "1", "2", "3", "4", "5", "6", "7", "8", "9"}

SkipDigits(s, i) == RunEnd(s, i, {j \in i..Len(s) : ~IsDigit(Ch(s, j))})

\* json.decoder.BACKSLASH
Unescape(c) ==
    CASE c = "\"" -> "\""
      [] c = "\\" -> "\\"
      [] c = "/"  -> "/"
      [] c = "n"  -> "\n"
      [] c = "r"  -> "\r"
      [] c = "t"  -> "\t"
      [] c = "f"  -> "\f"
      [] OTHER    -> ""

\* the value of a hexadecimal digit, -1 when c is none
HexDigit(c) ==
    LET digits == "0123456789abcdef"
        d == {i \in 1..16 : Ch(digits, i) = LowerCh(c)}
    IN  IF Len(c) = 1 /\ d # {} THEN MinOf(d) - 1 ELSE -1

\* U+0020 to U+007E, one character a code point; the sign ^ stands at
\* U+0060, and U+005E itself is not in the alphabet of the model's texts
Ascii ==
    " !\"#$%&'()*+,-./0123456789:;<=>?@ABCDEFGHIJKLMNOPQRSTUVWXYZ[\\] _^abcdefghijklmnopqrstuvwxyz{|}~"

\* json.decoder._decode_uXXXX and chr(): the character of the four
\* hexadecimal digits at s[i..i+3], "" when they are no such digits (or
\* name a character outside U+0020..U+007E, which no text of the model does)
DecodeU(s, i) ==
    LET h == [k \in 0..3 |-> HexDigit(Ch(s, i + k))]
        n == 4096 * h[0] + 256 * h[1] + 16 * h[2] + h[3]
    IN  IF \E k \in 0..3 : h[k] < 0 THEN ""
        ELSE IF n < 32 \/ n > 126 \/ n = 94 THEN ""
        ELSE Ch(Ascii, n - 31)

\* a character a JSON string holds as it is
IsPlain(c) == c \notin {"\"", "\\", "\n", "\r", "\t", "\f"}

\* py_scanstring with strict=True: i is the start of the next chunk (the
\* opening quote is already consumed); a control character or an unknown
\* escape is an error
RECURSIVE ScanString(_, _, _)
ScanChunk(s, acc, i, j) ==                      \* j ends the plain run from i
    IF j > Len(s) THEN PFail(j)
    ELSE IF Ch(s, j) = "\"" THEN POk(JStr(acc \o SubSeq(s, i, j - 1)), j + 1)
    ELSE IF Ch(s, j) = "\\" /\ Unescape(Ch(s, j + 1)) # ""
         THEN ScanString(s, j + 2, acc \o SubSeq(s, i, j - 1) \o Unescape(Ch(s, j + 1)))
    ELSE IF Ch(s, j) = "\\" /\ Ch(s, j + 1) = "u" /\ DecodeU(s, j + 2) # ""
         THEN ScanString(s, j + 6, acc \o SubSeq(s, i, j - 1) \o DecodeU(s, j + 2))
    ELSE PFail(j)

ScanString(s, i, acc) ==
    ScanChunk(s, acc, i, RunEnd(s, i, {j \in i..Len(s) : ~IsPlain(Ch(s, j))}))

\* json.scanner.NUMBER_RE: (-?(?:0|[1-9]\d*))(\.\d+)?([eE][-+]?\d+)?
NumExp(s, i, i2, e0) ==
    IF Ch(s, i2) \in {"e", "E"} /\ IsDigit(Ch(s, e0))
    THEN POk(JNum(SubSeq(s, i, SkipDigits(s, e0) - 1)), SkipDigits(s, e0))
    ELSE POk(JNum(SubSeq(s, i, i2 - 1)), i2)

NumFrac(s, i, i1) ==
    IF Ch(s, i1) = "." /\ IsDigit(Ch(s, i1 + 1))
    THEN NumExp(s, i, SkipDigits(s, i1 + 1),
                IF Ch(s, SkipDigits(s, i1 + 1) + 1) \in {"-", "+"}
                THEN SkipDigits(s, i1 + 1) + 2 ELSE SkipDigits(s, i1 + 1) + 1)
    ELSE NumExp(s, i, i1, IF Ch(s, i1 + 1) \in {"-", "+"} THEN i1 + 2 ELSE i1 + 1)

NumInt(s, i, i0) ==
    IF Ch(s, i0) = "0" THEN NumFrac(s, i, i0 + 1)
    ELSE IF IsDigit(Ch(s, i0)) THEN NumFrac(s, i, SkipDigits(s, i0))
    ELSE PFail(i)

ScanNumber(s, i) == NumInt(s, i, IF Ch(s, i) = "-" THEN i + 1 ELSE i)

\* the constants of json.decoder, tried when NUMBER_RE did not match
ScanConstant(s, i) ==
    IF StartsAt(s, i, "NaN")            THEN POk(JNum("NaN"), i + 3)
    ELSE IF StartsAt(s, i, "Infinity")  THEN POk(JNum("Infinity"), i + 8)
    ELSE IF StartsAt(s, i, "-Infinity") THEN POk(JNum("-Infinity"), i + 9)
    ELSE PFail(i)

NumberOrConstant(s, i, n) == IF n.ok THEN n ELSE ScanConstant(s, i)

RECURSIVE ScanValue(_, _), ScanMembers(_, _, _), ScanElements(_, _, _)

\* JSONObject: after a member, e is at the next non-blank character
MemberEnd(s, ms, e) ==
    IF Ch(s, e) = "}" THEN POk(JObj(ms), e + 1)
    ELSE IF Ch(s, e) = "," THEN ScanMembers(s, SkipWs(s, e + 1), ms)
    ELSE PFail(e)

AfterMember(s, acc, key, v) ==
    IF ~v.ok THEN PFail(v.pos)
    ELSE MemberEnd(s, Append(acc, [k |-> key.val.s, v |-> v.val]), SkipWs(s, v.pos))

AfterKeyAt(s, acc, key, c) ==
    IF Ch(s, c) # ":" THEN PFail(c)
    ELSE AfterMember(s, acc, key, ScanValue(s, SkipWs(s, c + 1)))

AfterKey(s, acc, key) ==
    IF ~key.ok THEN PFail(key.pos) ELSE AfterKeyAt(s, acc, key, SkipWs(s, key.pos))

\* JSONObject after the opening brace: i is at the quote of the next key
ScanMembers(s, i, acc) ==
    IF Ch(s, i) # "\"" THEN PFail(i) ELSE AfterKey(s, acc, ScanString(s, i + 1, ""))

\* JSONArray: after an element, e is at the next non-blank character
ElementEnd(s, xs, e) ==
    IF Ch(s, e) = "]" THEN POk(JArr(xs), e + 1)
    ELSE IF Ch(s, e) = "," THEN ScanElements(s, SkipWs(s, e + 1), xs)
    ELSE PFail(e)

AfterElement(s, acc, v) ==
    IF ~v.ok THEN PFail(v.pos) ELSE ElementEnd(s, Append(acc, v.val), SkipWs(s, v.pos))

\* JSONArray after the opening bracket: i is at the next element
ScanElements(s, i, acc) == AfterElement(s, acc, ScanValue(s, i))

OpenObject(s, j) == IF Ch(s, j) = "}" THEN POk(JObj(<<>>), j + 1) ELSE ScanMembers(s, j, <<>>)

OpenArray(s, j) == IF Ch(s, j) = "]" THEN POk(JArr(<<>>), j + 1) ELSE ScanElements(s, j, <<>>)

\* json.scanner.py_make_scanner._scan_once
ScanValue(s, i) ==
    IF i > Len(s) THEN PFail(i)
    ELSE IF Ch(s, i) = "\"" THEN ScanString(s, i + 1, "")
    ELSE IF Ch(s, i) = "{" THEN OpenObject(s, SkipWs(s, i + 1))
    ELSE IF Ch(s, i) = "[" THEN OpenArray(s, SkipWs(s, i + 1))
    ELSE IF StartsAt(s, i, "null")  THEN POk(JLit("null"), i + 4)
    ELSE IF StartsAt(s, i, "true")  THEN POk(JLit("true"), i + 4)
    ELSE IF StartsAt(s, i, "false") THEN POk(JLit("false"), i + 5)
    ELSE NumberOrConstant(s, i, ScanNumber(s, i))

\* JSONDecoder.decode after raw_decode: only blanks may follow the value
Decoded(s, v, end) ==
    IF ~v.ok THEN PFail(v.pos)
    ELSE IF end # Len(s) + 1 THEN PFail(end)        \* "Extra data"
    ELSE v

DecodeEnd(s, v) == Decoded(s, v, IF v.ok THEN SkipWs(s, v.pos) ELSE v.pos)

\* json.loads(s); ok = FALSE is json.JSONDecodeError
json_loads(s) == DecodeEnd(s, ScanValue(s, SkipWs(s, 1)))

\* the indices of the members of a dict that carry key k
KeyIdx(obj, k) == {i \in 1..Len(obj.items) : obj.items[i].k = k}

\* `k in result`
HasKey(obj, k) == KeyIdx(obj, k) # {}

\* result.get(k, default) on a dict
DictGet(obj, k, default) ==
    IF HasKey(obj, k)
    THEN obj.items[CHOOSE i \in KeyIdx(obj, k) : \A j \in KeyIdx(obj, k) : j <= i].v
    ELSE default

\* the keys of a dict
DictKeys(obj) == {obj.items[i].k : i \in 1..Len(obj.items)}

\* bool(x) of a decoded value
Truthy(v) ==
    CASE v.t = "str" -> v.s # ""
      [] v.t = "num" -> \E i \in 1..(RunEnd(v.s, 1, {j \in 1..Len(v.s) : Ch(v.s, j) \in {"e", "E"}}) - 1) :
                            Ch(v.s, i) \in {"1", "2", "3", "4", "5", "6", "7", "8", "9", "N", "I"}
      [] v.t = "lit" -> v.s = "true"
      [] OTHER       -> v.items # <<>>

(***************************************************************************)
(* json.dumps of a decoded value (default arguments).                      *)
(***************************************************************************)
\* json.encoder.ESCAPE_DCT, on the characters of the model's texts
EscapeCh(c) ==
    CASE c = "\"" -> "\\\""
      [] c = "\\" -> "\\\\"
      [] c = "\n" -> "\\n"
      [] c = "\r" -> "\\r"
      [] c = "\t" -> "\\t"
      [] c = "\f" -> "\\f"
      [] OTHER    -> c

RECURSIVE EscapeRange(_, _, _)
EscapeRange(s, i, j) ==
    IF i > j THEN ""
    ELSE IF i = j THEN EscapeCh(Ch(s, i))
    ELSE EscapeRange(s, i, (i + j) \div 2) \o EscapeRange(s, (i + j) \div 2 + 1, j)

\* py_encode_basestring_ascii
EncodeString(s) == "\"" \o EscapeRange(s, 1, Len(s)) \o "\""

\* int.__repr__ and float.__repr__ of the number a numeral was decoded to:
\* the numerals of the model's texts are integers and decimal fractions of
\* few digits without exponent; the fraction loses its trailing zeros
NumRepr(x) ==
    LET dot == Find(x, 1, ".")
        last == MaxOf({dot + 1} \cup {i \in (dot + 1)..Len(x) : Ch(x, i) # "0"})
    IN  IF x = "-0" THEN "0"
        ELSE IF dot = 0 \/ \E i \in 1..Len(x) : Ch(x, i) \in {"e", "E"} THEN x
        ELSE SubSeq(x, 1, last)

\* the members of a dict in insertion order: a key stands where it came
\* first and carries the value that came last
DictItems(obj) ==
    SelectSeq([i \in 1..Len(obj.items) |->
                  [k |-> obj.items[i].k, v |-> DictGet(obj, obj.items[i].k, JNull),
                   first |-> \A j \in 1..(i - 1) : obj.items[j].k # obj.items[i].k]],
              LAMBDA m : m.first)

RECURSIVE json_dumps(_), DumpItems(_, _), DumpMembers(_, _)

\* the elements from i on, joined by ", "
DumpItems(xs, i) ==
    IF i > Len(xs) THEN ""
    ELSE json_dumps(xs[i]) \o (IF i < Len(xs) THEN ", " ELSE "") \o DumpItems(xs, i + 1)

\* the members from i on, each as "key": value
DumpMembers(ms, i) ==
    IF i > Len(ms) THEN ""
    ELSE EncodeString(ms[i].k) \o ": " \o json_dumps(ms[i].v)
         \o (IF i < Len(ms) THEN ", " ELSE "") \o DumpMembers(ms, i + 1)

json_dumps(v) ==
    CASE v.t = "str" -> EncodeString(v.s)
      [] v.t = "num" -> NumRepr(v.s)
      [] v.t = "lit" -> v.s
      [] v.t = "arr" -> "[" \o DumpItems(v.items, 1) \o "]"
      [] OTHER       -> "{" \o DumpMembers(DictItems(v), 1) \o "}"

\* type(x).__name__ of a decoded value
TypeName(v) ==
    CASE v.t = "str" -> "str"
      [] v.t = "num" -> IF \E i \in 1..Len(v.s) : Ch(v.s, i) \in {".", "e", "E", "N", "I"}
                        THEN "float" ELSE "int"
      [] v.t = "lit" -> IF v.s = "null" THEN "NoneType" ELSE "bool"
      [] v.t = "arr" -> "list"
      [] OTHER       -> "dict"

\* str(AttributeError) raised by `x.get` on a value that is no dict
NoGet(v) == "'" \o TypeName(v) \o "' object has no attribute 'get'"

(***************************************************************************)
(* Python control flow: a call either returns a value or raises; exc is    *)
(* str(e) of the exception raised.                                         *)
(***************************************************************************)
Ret(v)     == [raised |-> FALSE, exc |-> "",  value |-> v]
Raise(msg) == [raised |-> TRUE,  exc |-> msg, value |-> None]

(***************************************************************************)
(* What model.generate_content(prompt) / response.text can give: a text,   *)
(* or an exception (transport failure, provider error, blocked response).  *)
(***************************************************************************)
Responded(text) == [raises |-> FALSE, text |-> text]
Failed(msg)     == [raises |-> TRUE,  text |-> msg]

Prefixes == {"", "^^^json\n", "^^^\n", "Here is the answer: "}
Suffixes == {"", "\n^^^", "\n"}

PredictionBodies ==
    { "{\"predicted_comment\": \"Released - strength stable\", \"reason\": \"like order 100234\"}",
      "{\"predicted_comment\": \"ok\", \"reason\": \"r\", \"confidence\": 0.9}",
      "{\"predicted_comment\": \"a\", \"predicted_comment\": \"b\", \"reason\": \"r\"}",
      "{\"predicted_comment\": \"use ^^^x^^^\", \"reason\": \"r\"}",
      "{\"predicted_comment\": \"run \\u0060\\u0060\\u0060sql\", \"reason\": \"r\"}",
      "{\"predicted_comment\": null, \"reason\": 5}",
      "{\"reason\": \"r\"}",
      "{\"predicted_comment\": \"ok\"}",
      "{}",
      "{\"predicted_comment\": \"ok\", \"reason\": \"r\"",
      "{\"predicted_comment\": \"ok\", \"reason\": oops}",
      "[1, 2]", "42", "null", "\"text\"", "NaN",
      "The order looks stable.",
      "" }

SqlBodies ==
    { "{\"sql_query\": \"SELECT TOP 10 * FROM Orders\", \"explanation\": \"top ten\"}",
      "{\"sql_query\": \"SELECT sold_to_id FROM Orders\", \"explanation\": \"ids\"}",
      "{\"sql_query\": \"\", \"explanation\": \"SELECT would not help\"}",
      "{\"explanation\": \"no query\"}",
      "{\"sql_query\": 5}",
      "{\"sql_query\": \"SELECT TOP 10 * FROM Orders\", \"explanation\": oops}",
      "SELECT TOP 10 * FROM Orders",
      "Run select TOP 10 * FROM Orders to see them. Hope this helps!",
      "SELECT Sold_To_Name FROM Customers",
      "[\"SELECT 1\"]",
      "\"SELECT 1\"",
      "I cannot answer that.",
      "Please reselect a table",
      "You have to select",
      "DELETE FROM Orders" }

Texts(bodies) == {p \o b \o x : p \in Prefixes, b \in bodies, x \in Suffixes}

LLMErrors == {"503 Service Unavailable", "API key not valid"}

\* what the call gives when no key is configured: the client cannot be
\* built and the call raises
NO_KEY == "No API_KEY or ADC found."

LLMOutcomes(bodies) ==
    {Responded(t) : t \in Texts(bodies)} \cup {Failed(m) : m \in LLMErrors}

(***************************************************************************)
(* get_prediction                                                          *)
(***************************************************************************)
Prediction(comment, reason) == [predicted_comment |-> comment, reason |-> reason]

NoDataResult ==
    Prediction(JStr("Error: No data available for prediction"),
               JStr("Failed to generate prompt due to missing or empty data"))

ParseFailureResult ==
    Prediction(JStr("Error: Could not generate prediction"),
               JStr("Failed to parse AI response into JSON format"))

ExceptionResult(msg) ==
    Prediction(JStr("Error: Could not generate prediction"), JStr(msg))

\* a dict with every member of result (what `return result` would give)
AllFields(result) == [k \in DictKeys(result) |-> DictGet(result, k, JStr(""))]

\* the dict literal returned after json.loads succeeded
PredictionFields(result) ==
    Prediction(DictGet(result, "predicted_comment", JStr("")),
               DictGet(result, "reason", JStr("")))

\* the inner try with no handler for json.JSONDecodeError
ParsedPredictionUnhandled(result) ==
    IF ~result.ok THEN Raise("Expecting value: line 1 column 1 (char 0)")
    ELSE IF result.val.t # "obj" THEN Raise(NoGet(result.val))
    ELSE Ret(PredictionFields(result.val))

\* the inner try: json.loads, then the two .get calls (AttributeError when
\* the decoded value is no dict); except json.JSONDecodeError
ParsedPrediction(result) ==
    IF ~result.ok THEN Ret(ParseFailureResult)
    ELSE IF result.val.t # "obj" THEN Raise(NoGet(result.val))
    ELSE Ret(PredictionFields(result.val))

TryParsePrediction(response_text) == ParsedPrediction(json_loads(response_text))

\* the body of the outer try
PredictionBody(l) ==
    IF l.raises THEN Raise(l.text)
    ELSE TryParsePrediction(StripFences(l.text))

\* the outer try without its handler
PredictionBodyUncaught(p, l) == PredictionBody(l)

\* the outer try: except Exception as e
Caught(r) == IF r.raised THEN Ret(ExceptionResult(r.exc)) ELSE r

PredictionTry(p, l) == Caught(PredictionBody(l))

\* order_prediction_sql.py and som_backend/main.py: l is the outcome of the
\* LLM call, None when the call was not made
get_prediction(p, l) ==
    IF p = None THEN Ret(NoDataResult) ELSE PredictionTry(p, l)

\* order_prediction.py and order_prediction_api.py: no check of the prompt
get_prediction_api(p, l) == PredictionTry(p, l)

HasPromptCheck(v) == v \in {"order_prediction_sql", "som_backend"}

Variants == {"order_prediction_sql", "som_backend", "order_prediction", "order_prediction_api"}

Idle == [idle |-> TRUE]

\* json.dumps of a result of get_prediction
DumpPrediction(p) ==
    "{\"predicted_comment\": " \o json_dumps(p.predicted_comment)
        \o ", \"reason\": " \o json_dumps(p.reason) \o "}"

RECURSIVE PyValue(_)
\* a decoded value as Python holds it: a number and not its numeral, a
\* dict and not its members as they were written
PyValue(v) ==
    CASE v.t = "num" -> JNum(NumRepr(v.s))
      [] v.t = "arr" -> JArr([i \in 1..Len(v.items) |-> PyValue(v.items[i])])
      [] v.t = "obj" -> JObj([i \in 1..Len(DictItems(v)) |->
                                [k |-> DictItems(v)[i].k, v |-> PyValue(DictItems(v)[i].v)]])
      [] OTHER       -> v

PyPrediction(p) == Prediction(PyValue(p.predicted_comment), PyValue(p.reason))

\* get_prediction on a response that is the serialized result p
Renormalized(p) == PredictionTry(Idle, Responded(DumpPrediction(p)))

PromptIdle == df = Idle /\ selected_record = Idle
QueryIdle  == /\ schema_rows = Idle /\ schema_context = Idle /\ sql_result = Idle
              /\ db = Idle /\ sent = <<>> /\ outcome = Idle
              /\ conns = [opened |-> 0, closed |-> 0]

(***************************************************************************)
(* SpecPredict: one call of get_prediction.                                *)
(***************************************************************************)
InitPredict ==
    /\ pc = "get_prediction"
    /\ variant \in Variants
    /\ prompt \in {None, [text |-> "Based on the following order data: ..."]}
    /\ llm = None
    /\ prediction = Idle
    /\ llm_calls = 0
    /\ api_key = TRUE
    /\ order_number = Idle
    /\ PromptIdle /\ QueryIdle

\* model.generate_content(prompt) and response.text; the library rejects
\* a prompt of None
generate_content ==
    /\ pc = "get_prediction"
    /\ prompt = None => ~HasPromptCheck(variant)
    /\ \E l \in (IF prompt = None THEN {Failed("contents must not be empty")}
                 ELSE LLMOutcomes(PredictionBodies \cup SqlBodies)) : llm' = l
    /\ llm_calls' = llm_calls + 1
    /\ pc' = "responded"
    /\ UNCHANGED <<variant, api_key, order_number, df, selected_record, prompt, prediction, schema_rows,
                   schema_context, sql_result, db, sent, outcome, conns>>

\* get_prediction returns without having called the LLM
return_no_data ==
    /\ pc = "get_prediction"
    /\ prompt = None /\ HasPromptCheck(variant)
    /\ prediction' = get_prediction(prompt, llm)
    /\ pc' = "done"
    /\ UNCHANGED <<variant, api_key, order_number, df, selected_record, prompt, llm, schema_rows,
                   schema_context, sql_result, db, sent, outcome, llm_calls, conns>>

\* the caller that calls get_prediction again when the response did not parse
AgainOnParseFailure(result) ==
    IF result = Ret(ParseFailureResult) THEN "get_prediction" ELSE "done"

\* where the caller of get_prediction goes with the result: every result,
\* an 'Error: ...' one too, is returned as it is
AfterPrediction(result) == "done"

\* get_prediction returns after the LLM call
return_prediction ==
    /\ pc = "responded"
    /\ prediction' = IF HasPromptCheck(variant) THEN get_prediction(prompt, llm)
                     ELSE get_prediction_api(prompt, llm)
    /\ pc' = AfterPrediction(prediction')
    /\ UNCHANGED <<variant, api_key, order_number, df, selected_record, prompt, llm, schema_rows,
                   schema_context, sql_result, db, sent, outcome, llm_calls, conns>>

NextPredict == generate_content \/ return_no_data \/ return_prediction

SpecPredict == InitPredict /\ [][NextPredict]_vars

(***************************************************************************)
(* Claims about get_prediction (checked under SpecPredict).                *)
(***************************************************************************)
\* the LLM was called and gave a text
GotText == llm # None /\ ~llm.raises

\* json.loads of the fence-stripped response
DecodedResponse == json_loads(StripFences(llm.text))

\* predicted_comment is a string that starts with "Error:"
IsErrorSentinel(v) ==
    /\ "predicted_comment" \in DOMAIN v
    /\ v.predicted_comment.t = "str"
    /\ StartsAt(v.predicted_comment.s, 1, "Error:")

\* C4: for every model response, the object get_prediction returns has
\* exactly the keys predicted_comment and reason; every other member of the
\* model's JSON is dropped.
C4_ExactlyTwoFields ==
    (pc = "done" /\ GotText /\ ~prediction.raised)
        => DOMAIN prediction.value = {"predicted_comment", "reason"}

\* C4 witness: the model's JSON object carried a third member, and the
\* returned object has the two keys only.
C4_Witness ==
    /\ pc = "done" /\ GotText
    /\ DecodedResponse.ok /\ DecodedResponse.val.t = "obj"
    /\ "confidence" \in DictKeys(DecodedResponse.val)
    /\ DOMAIN prediction.value = {"predicted_comment", "reason"}
    /\ prediction.value.predicted_comment = JStr("ok")

\* C5 (the claim as stated): a JSON object that lacks predicted_comment or
\* lacks reason makes get_prediction return an error sentinel, one whose
\* predicted_comment starts with "Error:".
C5_MissingFieldIsFailure ==
    (/\ pc = "done" /\ GotText
     /\ DecodedResponse.ok /\ DecodedResponse.val.t = "obj"
     /\ ~({"predicted_comment", "reason"} \subseteq DictKeys(DecodedResponse.val)))
        => (~prediction.raised /\ IsErrorSentinel(prediction.value))

\* C6: get_prediction never raises: whatever the raw text (a JSON object,
\* JSON that is no object, malformed JSON, empty text) and whatever the
\* failure of the LLM call, it returns an object of two fields.
C6_NeverRaises ==
    pc = "done" => (/\ ~prediction.raised
                     /\ Cardinality(DOMAIN prediction.value) = 2
                     /\ {"predicted_comment", "reason"} \subseteq DOMAIN prediction.value)

\* C6 witness: the text was valid JSON that is no object (the .get call
\* fails inside the try), and a result came back.
C6_Witness ==
    /\ pc = "done" /\ GotText
    /\ DecodedResponse.ok /\ DecodedResponse.val.t = "arr"
    /\ ~prediction.raised
    /\ prediction.value.reason = JStr("'list' object has no attribute 'get'")

\* C7: when the fence-stripped text is not valid JSON, get_prediction
\* returns the fixed sentinel ("Error: Could not generate prediction",
\* "Failed to parse AI response into JSON format"), whatever the text.
C7_ParseFailureSentinel ==
    (pc = "done" /\ GotText /\ ~DecodedResponse.ok)
        => prediction = Ret(Prediction(JStr("Error: Could not generate prediction"),
                                       JStr("Failed to parse AI response into JSON format")))

\* C7 witness: a prose answer between fences was answered with the sentinel.
C7_Witness ==
    /\ pc = "done" /\ GotText
    /\ llm.text = "^^^json\nThe order looks stable.\n^^^"
    /\ ~DecodedResponse.ok
    /\ prediction.value.reason = JStr("Failed to parse AI response into JSON format")

(***************************************************************************)
(* nl_to_sql.py: get_table_schema, get_foreign_keys, prepare_schema_context*)
(*                                                                         *)
(* A metadata fetch is [conn, exec, rows]: get_db_connection gave a        *)
(* connection or None, cursor.execute returned or raised, and the rows     *)
(* cursor.fetchall() gave.                                                 *)
(***************************************************************************)
Fetch(conn, exec, rows) == [conn |-> conn, exec |-> exec, rows |-> rows]

\* a row of the sys.tables/sys.columns query
ColumnRow(sn, tn, cn, ty, nullable) ==
    [schema_name |-> sn, table_name |-> tn, column_name |-> cn,
     data_type |-> ty, is_nullable |-> nullable]

\* a row of the sys.foreign_keys query
FkRow(name, ps, pt, pcol, rs, rt, rcol) ==
    [fk_name |-> name, parent_schema |-> ps, parent_table |-> pt, parent_column |-> pcol,
     referenced_schema |-> rs, referenced_table |-> rt, referenced_column |-> rcol]

\* a value a function returns where it could have returned None
Some(v) == [none |-> FALSE, value |-> v]

SENSITIVE == "sold_to"

\* the test without .lower()
IsSensitiveExact(column_name) == Contains(SENSITIVE, column_name)

\* 'sold_to' in column_name.lower()
IsSensitive(column_name) == Contains(SENSITIVE, Lower(column_name))

\* f"{schema_name}.{table_name}"
FullName(sn, tn) == sn \o "." \o tn

\* the rows of get_table_schema's loop that reach schema_data
KeepColumnRow(row) ==
    /\ ~(row.schema_name \in {"sys", "INFORMATION_SCHEMA"} \/ StartsAt(row.table_name, 1, "#"))
    /\ ~IsSensitive(row.column_name)

\* b without the elements of a
NewIn(a, b) == SelectSeq(b, LAMBDA x : \A i \in 1..Len(a) : a[i] # x)

NewInAfter(a, b) == a \o NewIn(a, b)

RECURSIVE TableNames(_, _, _)
\* the keys of schema_data in insertion order: the full names of
\* rows[lo..hi], each once, in order of first appearance
TableNames(rows, lo, hi) ==
    IF lo > hi THEN <<>>
    ELSE IF lo = hi THEN <<FullName(rows[lo].schema_name, rows[lo].table_name)>>
    ELSE NewInAfter(TableNames(rows, lo, (lo + hi) \div 2),
                    TableNames(rows, (lo + hi) \div 2 + 1, hi))

\* the dict appended for one row
ColumnEntry(row) ==
    [column_name |-> row.column_name, data_type |-> row.data_type,
     is_nullable |-> row.is_nullable]

\* schema_data[name]
ColumnEntries(mine) == [i \in 1..Len(mine) |-> ColumnEntry(mine[i])]

ColumnsOf(kept, name) ==
    ColumnEntries(SelectSeq(kept, LAMBDA r : FullName(r.schema_name, r.table_name) = name))

\* schema_data as the sequence of its items
SchemaItems(kept, names) ==
    [i \in 1..Len(names) |-> [table |-> names[i], columns |-> ColumnsOf(kept, names[i])]]

SchemaData(kept) == SchemaItems(kept, TableNames(kept, 1, Len(kept)))

\* get_table_schema: None, or schema_data
get_table_schema(f) ==
    IF f.conn = "fail" \/ f.exec = "raise" THEN None
    ELSE Some(SchemaData(SelectSeq(f.rows, KeepColumnRow)))

MaxFkRows == 300

\* rows[:n]
Take(rows, n) == SubSeq(rows, 1, Min(n, Len(rows)))

KeepFkRow(row) == ~(IsSensitive(row.parent_column) \/ IsSensitive(row.referenced_column))

FkEntry(row) ==
    [fk_name |-> row.fk_name,
     parent_table |-> FullName(row.parent_schema, row.parent_table),
     parent_column |-> row.parent_column,
     referenced_table |-> FullName(row.referenced_schema, row.referenced_table),
     referenced_column |-> row.referenced_column]

FkEntries(kept) == [i \in 1..Len(kept) |-> FkEntry(kept[i])]

\* get_foreign_keys: None, or fk_relationships
get_foreign_keys(f) ==
    IF f.conn = "fail" \/ f.exec = "raise" THEN None
    ELSE Some(FkEntries(SelectSeq(Take(f.rows, MaxFkRows), KeepFkRow)))

MaxTables == 50
MaxColumns == 20
MaxFks == 100

\* the tables in the order of the catalogue, not sorted
CataloguePlace(items, i) == i

\* the place of item i in sorted(items, key=len(columns), reverse=True):
\* the sort is stable, so equal counts keep their order
SortedPlace(items, i) ==
    1 + Cardinality({j \in 1..Len(items) :
            \/ Len(items[j].columns) > Len(items[i].columns)
            \/ Len(items[j].columns) = Len(items[i].columns) /\ j < i})

\* sorted_tables[:50]
TopTables(items) ==
    [k \in 1..Min(MaxTables, Len(items)) |->
        items[CHOOSE i \in 1..Len(items) : SortedPlace(items, i) = k]]

\* the lines of one table of the context
TableLines(item) ==
    <<[kind |-> "table", table |-> item.table]>>
    \o [i \in 1..Min(MaxColumns, Len(item.columns)) |->
            [kind |-> "column", column_name |-> item.columns[i].column_name,
             data_type |-> item.columns[i].data_type,
             nullable |-> IF item.columns[i].is_nullable THEN "NULL" ELSE "NOT NULL"]]
    \o (IF Len(item.columns) > MaxColumns
        THEN <<[kind |-> "more_columns", n |-> Len(item.columns) - MaxColumns]>> ELSE <<>>)
    \o <<[kind |-> "blank"]>>

RECURSIVE AllTableLines(_, _, _)
\* the lines of tables[lo..hi], in order
AllTableLines(tables, lo, hi) ==
    IF lo > hi THEN <<>>
    ELSE IF lo = hi THEN TableLines(tables[lo])
    ELSE AllTableLines(tables, lo, (lo + hi) \div 2)
         \o AllTableLines(tables, (lo + hi) \div 2 + 1, hi)

\* the lines of the foreign-key section (`if fk_relationships:` is false
\* for an empty list, and for None)
FkLinesOf(fks) ==
    IF fks = <<>> THEN <<>>
    ELSE <<[kind |-> "fk_header"]>>
         \o [i \in 1..Min(MaxFks, Len(fks)) |->
                [kind |-> "fk", parent_table |-> fks[i].parent_table,
                 parent_column |-> fks[i].parent_column,
                 referenced_table |-> fks[i].referenced_table,
                 referenced_column |-> fks[i].referenced_column]]
         \o (IF Len(fks) > MaxFks
             THEN <<[kind |-> "more_fks", n |-> Len(fks) - MaxFks]>> ELSE <<>>)

FkLines(fk_relationships) ==
    IF fk_relationships = None THEN <<>> ELSE FkLinesOf(fk_relationships.value)

DATABASE == "SOM"

\* the text one line record stands for
RenderLine(l) ==
    CASE l.kind = "database" -> "Database: " \o l.database \o "\n\n"
      [] l.kind = "tables_header" -> "Tables and Columns:\n"
      [] l.kind = "table" -> "Table: " \o l.table \o "\n"
      [] l.kind = "column" ->
            "  - " \o l.column_name \o " (" \o l.data_type \o ", " \o l.nullable \o ")\n"
      [] l.kind = "more_columns" -> "  - ... and " \o ToString(l.n) \o " more columns\n"
      [] l.kind = "blank" -> "\n"
      [] l.kind = "fk_header" -> "Foreign Key Relationships:\n"
      [] l.kind = "fk" ->
            "  - " \o l.parent_table \o "." \o l.parent_column \o " -> "
                   \o l.referenced_table \o "." \o l.referenced_column \o "\n"
      [] l.kind = "more_fks" -> "  - ... and " \o ToString(l.n) \o " more relationships\n"

RECURSIVE Render(_, _, _)
\* the concatenation of lines[lo..hi]
Render(lines, lo, hi) ==
    IF lo > hi THEN ""
    ELSE IF lo = hi THEN RenderLine(lines[lo])
    ELSE Render(lines, lo, (lo + hi) \div 2) \o Render(lines, (lo + hi) \div 2 + 1, hi)

\* the context string, with the lines it was built from
ErrorContext == [text |-> "Error: Could not retrieve schema information.", lines |-> <<>>]

Context(lines) == [text |-> Render(lines, 1, Len(lines)), lines |-> lines]

ContextOf(tables, fks) ==
    Context(<<[kind |-> "database", database |-> DATABASE], [kind |-> "tables_header"]>>
            \o AllTableLines(tables, 1, Len(tables)) \o FkLines(fks))

BuildContext(schema_data, fk_relationships) ==
    IF schema_data = None THEN ErrorContext
    ELSE ContextOf(TopTables(schema_data.value), fk_relationships)

\* prepare_schema_context: rows is [tables, fks], the two metadata fetches
prepare_schema_context(rows) ==
    BuildContext(get_table_schema(rows.tables), get_foreign_keys(rows.fks))

(***************************************************************************)
(* What the database can answer to the two metadata queries.               *)
(***************************************************************************)
SeqsUpTo(S, n) == UNION {[1..k -> S] : k \in 0..n}

MaxRows == 2

ColumnRowPool ==
    { ColumnRow("dbo", "Orders", "ORDERNUMBER", "int", FALSE),
      ColumnRow("dbo", "Orders", "SOLD_TO_ID", "int", TRUE),
      ColumnRow("dbo", "Customers", "Sold_To_Name", "varchar", TRUE),
      ColumnRow("dbo", "Customers", "customer_sold_to_party", "varchar", TRUE),
      ColumnRow("dbo", "Customers", "SOLDTO", "varchar", TRUE),
      ColumnRow("sys", "objects", "name", "sysname", FALSE),
      ColumnRow("dbo", "#tmp", "x", "int", TRUE) }

FkRowPool ==
    { FkRow("FK_1", "dbo", "Orders", "CUSTOMER_ID", "dbo", "Customers", "ID"),
      FkRow("FK_2", "dbo", "Orders", "SOLD_TO_ID", "dbo", "Customers", "ID"),
      FkRow("FK_3", "dbo", "Orders", "CUSTOMER_ID", "dbo", "Customers", "Sold_To_Id"),
      FkRow("FK_4", "dbo", "Orders", "SOLD", "dbo", "Customers", "TO_ID") }

\* a large catalogue: t tables of c columns each and one column more in the
\* last, the second column of every table a sold_to column
WideColumnRow(t, c, r) ==
    ColumnRow("dbo", "T" \o ToString(Min(t, (r - 1) \div c + 1)),
              IF (r - 1) % c = 1 THEN "Sold_To_" \o ToString(r) ELSE "C" \o ToString(r),
              "int", r % 2 = 0)

WideColumnRows(t, c) == [r \in 1..(t * c + 1) |-> WideColumnRow(t, c, r)]

\* n relationships, every fiftieth on a sold_to column
WideFkRow(r) ==
    FkRow("FK_" \o ToString(r), "dbo", "T" \o ToString(r),
          IF r % 50 = 0 THEN "SOLD_TO_" \o ToString(r) ELSE "P" \o ToString(r),
          "dbo", "T0", IF r % 50 = 1 THEN "sold_to" ELSE "ID")

WideFkRows(n) == [r \in 1..n |-> WideFkRow(r)]

Around(n) == {n - 1, n, n + 1}

Fetches(rowss) ==
    {Fetch("fail", "none", <<>>), Fetch("ok", "raise", <<>>)}
    \cup {Fetch("ok", "ok", rows) : rows \in rowss}

\* every short catalogue with the short relationship lists, and the other
\* way round
ShortFetches ==
    [tables : Fetches(SeqsUpTo(ColumnRowPool, MaxRows)),
     fks : Fetches(SeqsUpTo(FkRowPool, 1))]
    \cup [tables : Fetches(SeqsUpTo(ColumnRowPool, 1)),
          fks : Fetches(SeqsUpTo(FkRowPool, MaxRows))]

WideFetches ==
    [tables : {Fetch("ok", "ok", WideColumnRows(t, c)) :
                    t \in Around(MaxTables), c \in Around(MaxColumns + 1)},
     fks : {Fetch("ok", "ok", WideFkRows(MaxFks + 1))}]
    \cup [tables : {Fetch("ok", "ok", WideColumnRows(MaxTables + 1, MaxColumns + 1))},
          fks : {Fetch("ok", "ok", WideFkRows(n)) :
                    n \in Around(MaxFks) \cup Around(MaxFkRows)}]

\* get_db_connection calls made and conn.close() calls made by
\* prepare_schema_context on these answers
Connected(f) == IF f.conn = "ok" THEN 1 ELSE 0

Closed(f) == IF f.conn = "ok" /\ f.exec = "ok" THEN 1 ELSE 0

FkFetched(rows) == get_table_schema(rows.tables) # None

SchemaConns(rows) ==
    [opened |-> Connected(rows.tables) + (IF FkFetched(rows) THEN Connected(rows.fks) ELSE 0),
     closed |-> Closed(rows.tables) + (IF FkFetched(rows) THEN Closed(rows.fks) ELSE 0)]

(***************************************************************************)
(* SpecSchema: prepare_schema_context on every answer of the database.     *)
(***************************************************************************)
PredictIdle ==
    /\ variant = "nl_to_sql"
    /\ prompt = Idle
    /\ llm = None
    /\ prediction = Idle
    /\ llm_calls = 0

InitSchema ==
    /\ pc = "prepare_schema_context"
    /\ api_key = TRUE
    /\ order_number = Idle
    /\ PromptIdle
    /\ PredictIdle
    /\ QueryIdle

schema_context_built(rows) ==
    /\ pc = "prepare_schema_context"
    /\ schema_rows' = rows
    /\ schema_context' = prepare_schema_context(rows)
    /\ conns' = SchemaConns(rows)
    /\ pc' = "done"
    /\ UNCHANGED <<variant, api_key, order_number, df, selected_record, prompt, llm, prediction,
                   sql_result, db, sent, outcome, llm_calls>>

prepare_short_context == \E rows \in ShortFetches : schema_context_built(rows)

prepare_wide_context == \E rows \in WideFetches : schema_context_built(rows)

NextSchema == prepare_short_context \/ prepare_wide_context

SpecSchema == InitSchema /\ [][NextSchema]_vars

(***************************************************************************)
(* nl_to_sql                                                               *)
(*                                                                         *)
(* The result is the returned dict; steps lists the attempts the call made *)
(* on the response, in the order it made them: "json" for json.loads,      *)
(* "regex" for re.search, "fail" for the return of the failure dict.       *)
(***************************************************************************)
SqlResult(sql_query, explanation) == [sql_query |-> sql_query, explanation |-> explanation]

Attempt(steps, r) == [steps |-> steps, r |-> r]

NO_QUERY == "-- Could not generate a valid SQL query"

ParseFailedSql ==
    SqlResult(JStr(""), JStr("Failed to parse AI response. Please try a different query."))

ExtractedSql(sql_query) ==
    SqlResult(JStr(sql_query), JStr("SQL query extracted from non-JSON response."))

\* the outer handler answering with the placeholder query
SqlErrorPlaceholder(msg) == SqlResult(JStr(NO_QUERY), JStr("Error: " \o msg))

\* the dict of the outer handler
SqlError(msg) == SqlResult(JStr(""), JStr("Error: " \o msg))

\* result.get("sql_query") after the `if not result.get("sql_query")` fix-up
SqlQueryOr(sql_query) == IF Truthy(sql_query) THEN sql_query ELSE JStr(NO_QUERY)

\* the dict returned after json.loads succeeded
SqlFields(result) ==
    SqlResult(SqlQueryOr(DictGet(result, "sql_query", JNull)),
              DictGet(result, "explanation", JStr("")))

\* the search without re.IGNORECASE
SelectStartUpper(response_text) ==
    LET hits == {j \in 1..(Len(response_text) - 6) :
                    SubSeq(response_text, j, j + 5) = "SELECT"}
    IN  IF hits = {} THEN 0 ELSE MinOf(hits)

\* re.search(r'(?:^^^sql)?\s*(SELECT[\s\S]+?)(?:^^^|$)', response_text,
\* re.IGNORECASE) on a text the two re.sub calls left without ^^^: the start
\* of group 1, the leftmost SELECT in any letter case that has a character
\* after it; 0 when there is no match
SelectStart(response_text) ==
    LET hits == {j \in 1..(Len(response_text) - 6) :
                    Lower(SubSeq(response_text, j, j + 5)) = "select"}
    IN  IF hits = {} THEN 0 ELSE MinOf(hits)

\* the branch with the empty-query placeholder for its failure dict
SqlFallbackPlaceholder(response_text, start) ==
    IF start # 0
    THEN Attempt(<<"json", "regex">>, Ret(ExtractedSql(Strip(From(response_text, start)))))
    ELSE Attempt(<<"json", "regex", "fail">>, Ret(SqlResult(JStr(NO_QUERY), JStr(""))))

\* the except json.JSONDecodeError branch
SqlFallback(response_text, start) ==
    IF start # 0
    THEN Attempt(<<"json", "regex">>, Ret(ExtractedSql(Strip(From(response_text, start)))))
    ELSE Attempt(<<"json", "regex", "fail">>, Ret(ParseFailedSql))

\* the branch with re.search tried before json.loads
ParsedSqlRegexFirst(response_text, result) ==
    IF SelectStart(response_text) # 0
    THEN Attempt(<<"regex">>,
                 Ret(ExtractedSql(Strip(From(response_text, SelectStart(response_text))))))
    ELSE IF ~result.ok THEN Attempt(<<"regex", "json", "fail">>, Ret(ParseFailedSql))
    ELSE IF result.val.t # "obj" THEN Attempt(<<"regex", "json">>, Raise(NoGet(result.val)))
    ELSE Attempt(<<"regex", "json">>, Ret(SqlFields(result.val)))

\* the inner try: json.loads, then the .get calls (AttributeError when the
\* decoded value is no dict); except json.JSONDecodeError
ParsedSql(response_text, result) ==
    IF ~result.ok THEN SqlFallback(response_text, SelectStart(response_text))
    ELSE IF result.val.t # "obj" THEN Attempt(<<"json">>, Raise(NoGet(result.val)))
    ELSE Attempt(<<"json">>, Ret(SqlFields(result.val)))

TryParseSql(response_text) == ParsedSql(response_text, json_loads(response_text))

\* the body of the outer try
SqlBody(l) ==
    IF l.raises THEN Attempt(<<>>, Raise(l.text))
    ELSE TryParseSql(StripFences(l.text))

\* the outer try: except Exception as e
SqlCaught(a) == IF a.r.raised THEN Attempt(a.steps, Ret(SqlError(a.r.exc))) ELSE a

\* nl_to_sql on the outcome l of model.generate_content
nl_to_sql(l) == SqlCaught(SqlBody(l))

(***************************************************************************)
(* execute_sql_query and execute_query_with_user_feedback                  *)
(*                                                                         *)
(* A run of the query is [conn, exec, frame]: get_db_connection gave a     *)
(* connection or None, pd.read_sql returned or raised, and the DataFrame   *)
(* it returned.                                                            *)
(***************************************************************************)
Run(conn, exec, frame) == [conn |-> conn, exec |-> exec, frame |-> frame]

DataFrame(rows, columns) == [rows |-> rows, columns |-> columns]

NoFrame == DataFrame(0, 0)

\* execute_sql_query: None, or the DataFrame
execute_sql_query(run) ==
    IF run.conn = "fail" \/ run.exec = "raise" THEN None ELSE Some(run.frame)

\* the dicts of the two early returns, which carry no sql_query
Failure(message) ==
    [success |-> FALSE, results |-> None, message |-> message, summary |-> None]

NoSchema ==
    Failure("We couldn't connect to the database. Please try again later or contact support.")

NotUnderstood ==
    Failure("We couldn't understand your question. Please try rephrasing it or being more specific.")

ExecutionFailed(sql_query) ==
    [success |-> FALSE, results |-> None,
     message |-> "We couldn't find the information you requested. Please try a different question.",
     summary |-> None, sql_query |-> sql_query]

NoRecords(results, sql_query) ==
    [success |-> TRUE, results |-> Some(results),
     message |-> "No records found matching your criteria. Please try a different search.",
     summary |-> [text |-> "No data found that matches your criteria.", shows |-> None],
     sql_query |-> sql_query]

\* the summary: its first sentence, and the explanation appended after
\* "This shows: " when the explanation is truthy
Summary(results, explanation) ==
    [text |-> "Found " \o ToString(results.rows) \o " records with "
              \o ToString(results.columns) \o " columns.",
     shows |-> IF Truthy(explanation) THEN Some(explanation) ELSE None]

Found(results, sql, summary) ==
    [success |-> TRUE, results |-> Some(results),
     message |-> "Found " \o ToString(results.rows) \o " records matching your query.",
     summary |-> summary, sql_query |-> sql]

\* the returns that follow execute_sql_query
Executed(results, sql) ==
    IF results = None THEN ExecutionFailed(sql.sql_query)
    ELSE IF results.value.rows = 0 THEN NoRecords(results.value, sql.sql_query)
    ELSE Found(results.value, sql.sql_query, Summary(results.value, sql.explanation))

\* "Error:" in schema_context
SchemaFailed(context) == Contains("Error:", context.text)

\* the test written as `if sql_query is None`
NoQueryIsNone(sql) == sql.sql_query = JNull

\* `if not sql_query`
NoQuery(sql) == ~Truthy(sql.sql_query)

QueryColumnRows ==
    { <<>>,
      <<ColumnRow("dbo", "Orders", "ORDERNUMBER", "int", FALSE),
        ColumnRow("dbo", "Orders", "SOLD_TO_ID", "int", TRUE)>>,
      <<ColumnRow("dbo", "Log", "Error: code", "int", TRUE)>> }

QueryFkRows ==
    { <<FkRow("FK_1", "dbo", "Orders", "CUSTOMER_ID", "dbo", "Customers", "ID")>> }

QueryFetches == [tables : Fetches(QueryColumnRows), fks : Fetches(QueryFkRows)]

MaxFrameRows == 2

\* what model.generate_content gives nl_to_sql, with and without a key
QueryOutcomes(key) ==
    IF key THEN LLMOutcomes(PredictionBodies \cup SqlBodies) ELSE {Failed(NO_KEY)}

Runs ==
    {Run("fail", "none", NoFrame), Run("ok", "raise", NoFrame)}
    \cup {Run("ok", "ok", DataFrame(n, 3)) : n \in 0..MaxFrameRows}

(***************************************************************************)
(* SpecQuery: execute_query_with_user_feedback, one action for each        *)
(* stretch of the function between two calls out of the process.           *)
(***************************************************************************)
InitQuery ==
    /\ pc = "prepare_schema_context"
    /\ api_key \in BOOLEAN
    /\ order_number = Idle
    /\ PromptIdle
    /\ PredictIdle
    /\ QueryIdle

\* prepare_schema_context and the "Error:" test: the early return
schema_unavailable ==
    /\ pc = "prepare_schema_context"
    /\ \E rows \in QueryFetches :
        /\ SchemaFailed(prepare_schema_context(rows))
        /\ schema_rows' = rows
        /\ schema_context' = prepare_schema_context(rows)
        /\ conns' = SchemaConns(rows)
    /\ outcome' = NoSchema
    /\ pc' = "done"
    /\ UNCHANGED <<variant, api_key, order_number, df, selected_record, prompt, llm, prediction,
                   sql_result, db, sent, llm_calls>>

\* prepare_schema_context and the "Error:" test: on to nl_to_sql
schema_ready ==
    /\ pc = "prepare_schema_context"
    /\ \E rows \in QueryFetches :
        /\ ~SchemaFailed(prepare_schema_context(rows))
        /\ schema_rows' = rows
        /\ schema_context' = prepare_schema_context(rows)
        /\ conns' = SchemaConns(rows)
    /\ pc' = "nl_to_sql"
    /\ UNCHANGED <<variant, api_key, order_number, df, selected_record, prompt, llm, prediction,
                   sql_result, db, sent, outcome, llm_calls>>

\* nl_to_sql and the `if not sql_query` test: the early return
query_not_understood ==
    /\ pc = "nl_to_sql"
    /\ \E l \in QueryOutcomes(api_key) :
        /\ NoQuery(nl_to_sql(l).r.value)
        /\ llm' = l
        /\ sql_result' = nl_to_sql(l)
    /\ llm_calls' = llm_calls + 1
    /\ outcome' = NotUnderstood
    /\ pc' = "done"
    /\ UNCHANGED <<variant, api_key, order_number, df, selected_record, prompt, prediction,
                   schema_rows, schema_context, db, sent, conns>>

\* nl_to_sql and the `if not sql_query` test: on to execute_sql_query
query_generated ==
    /\ pc = "nl_to_sql"
    /\ \E l \in QueryOutcomes(api_key) :
        /\ ~NoQuery(nl_to_sql(l).r.value)
        /\ llm' = l
        /\ sql_result' = nl_to_sql(l)
    /\ llm_calls' = llm_calls + 1
    /\ pc' = "execute_sql_query"
    /\ UNCHANGED <<variant, api_key, order_number, df, selected_record, prompt, prediction,
                   schema_rows, schema_context, db, sent, outcome, conns>>

\* execute_sql_query and the rest of the function; pd.read_sql hands the
\* query to the database when there is a connection
query_executed ==
    /\ pc = "execute_sql_query"
    /\ \E run \in Runs :
        /\ db' = run
        /\ sent' = IF run.conn = "ok" THEN Append(sent, sql_result.r.value.sql_query) ELSE sent
        /\ conns' = [opened |-> conns.opened + Connected(run),
                     closed |-> conns.closed + Closed(run)]
        /\ outcome' = Executed(execute_sql_query(run), sql_result.r.value)
    /\ pc' = "done"
    /\ UNCHANGED <<variant, api_key, order_number, df, selected_record, prompt, llm, prediction,
                   schema_rows, schema_context, sql_result, llm_calls>>

NextQuery ==
    \/ schema_unavailable
    \/ schema_ready
    \/ query_not_understood
    \/ query_generated
    \/ query_executed

SpecQuery == InitQuery /\ [][NextQuery]_vars

(***************************************************************************)
(* prepare_prompt (order_prediction_sql.py, som_backend/main.py)           *)
(*                                                                         *)
(* A record is a row of the frame load_data returns: the trend columns are *)
(* float64 after pd.to_numeric, a number or NaN.                           *)
(***************************************************************************)
Num(n) == [nan |-> FALSE, v |-> n]

NaN == [nan |-> TRUE, v |-> 0]

Record(order, comment, lag2, lag1) ==
    [ORDERNUMBER |-> order, ORDER_JRNL_CMT_TXT |-> comment,
     TREND_LAG2_STRNT |-> lag2, TREND_LAG1_STRNT |-> lag1]

\* {col: float(record[col]) for col in trend_columns}: float() of a
\* float64 is the same number, and NaN stays NaN
Trends(record) ==
    [TREND_LAG2_STRNT |-> record.TREND_LAG2_STRNT,
     TREND_LAG1_STRNT |-> record.TREND_LAG1_STRNT]

RecordData(record) ==
    [order_number |-> record.ORDERNUMBER, comment |-> record.ORDER_JRNL_CMT_TXT,
     trends |-> Trends(record)]

MaxOthers == 500

\* .head(500) taken before the rows of the selected order are dropped
OtherRecordsHeadFirst(target, records) ==
    SelectSeq(Take(records, MaxOthers), LAMBDA r : r.ORDERNUMBER # target.ORDERNUMBER)

\* df[df.ORDERNUMBER != selected_record.ORDERNUMBER].head(500)
OtherRecords(target, records) ==
    Take(SelectSeq(records, LAMBDA r : r.ORDERNUMBER # target.ORDERNUMBER), MaxOthers)

OtherRecordsData(others) == [k \in 1..Len(others) |-> RecordData(others[k])]

\* the values the f-string of the prompt interpolates
Prompt(target, others) ==
    [selected_order_number |-> target.ORDERNUMBER,
     selected_trends |-> Trends(target),
     other_records_data |-> OtherRecordsData(others)]

\* prepare_prompt: None, or the prompt
\* prepare_prompt without the test of an empty frame
prepare_prompt_nonempty(target, frame) ==
    IF frame = None THEN None
    ELSE IF target = None THEN None
    ELSE Prompt(target, OtherRecords(target, frame.value))

prepare_prompt(target, frame) ==
    IF frame = None THEN None
    ELSE IF frame.value = <<>> THEN None
    ELSE IF target = None THEN None
    ELSE Prompt(target, OtherRecords(target, frame.value))

(***************************************************************************)
(* The frames load_data can return: no row has NaN in every trend column   *)
(* (dropna) and the rows are in descending TREND_LAG1_STRNT, NaN last      *)
(* (sort_values); ORDERNUMBER is never NULL (inner join on it).            *)
(***************************************************************************)
MaxRecords == 3

RecordPool ==
    {Record(o, c, t[1], t[2]) :
        o \in {1, 2}, c \in {"Released", "Held"},
        t \in {<<Num(10), Num(20)>>, <<NaN, Num(10)>>, <<Num(10), NaN>>}}

\* a may stand before b in the sorted frame
InOrder(a, b) ==
    \/ b.TREND_LAG1_STRNT.nan
    \/ ~a.TREND_LAG1_STRNT.nan /\ a.TREND_LAG1_STRNT.v >= b.TREND_LAG1_STRNT.v

IsSorted(records) == \A i \in 1..(Len(records) - 1) : InOrder(records[i], records[i + 1])

ShortFrames == {records \in SeqsUpTo(RecordPool, MaxRecords) : IsSorted(records)}

\* a long frame: a rows of order 2, b rows of order 1, c rows of order 2
LongRecord(a, b, k) ==
    Record(IF k > a /\ k <= a + b THEN 1 ELSE 2, "c" \o ToString(k), Num(k), Num(20))

LongFrame(a, b, c) == [k \in 1..(a + b + c) |-> LongRecord(a, b, k)]

LongFrames ==
    {LongFrame(a, b, c) :
        a \in {0, MaxOthers \div 2}, b \in {1, 2},
        c \in Around(MaxOthers \div 2) \cup Around(MaxOthers)}

\* the first row of each order number of the frame
FirstOfOrder(records) ==
    {i \in 1..Len(records) :
        \A j \in 1..(i - 1) : records[j].ORDERNUMBER # records[i].ORDERNUMBER}

\* the rows the caller can select: df.iloc[i] for any i in
\* order_prediction_sql.py, the first row with the requested order number
\* in som_backend/main.py
Selectable(v, records) ==
    IF v = "som_backend" THEN FirstOfOrder(records) ELSE 1..Len(records)

PromptVariants == {"order_prediction_sql", "som_backend"}

(***************************************************************************)
(* SpecPrompt: prepare_prompt on every frame and selected record.          *)
(***************************************************************************)
PromptStart ==
    /\ pc = "prepare_prompt"
    /\ variant \in PromptVariants
    /\ api_key = TRUE
    /\ order_number = Idle
    /\ prompt = Idle
    /\ llm = None
    /\ prediction = Idle
    /\ llm_calls = 0
    /\ QueryIdle

\* of a long frame, the first row of each order number and the last row
InitPrompt ==
    /\ PromptStart
    /\ \/ /\ df \in {Some(records) : records \in ShortFrames}
          /\ selected_record \in
                {None} \cup {df.value[i] : i \in Selectable(variant, df.value)}
       \/ /\ df \in {Some(records) : records \in LongFrames}
          /\ selected_record \in
                {df.value[i] : i \in Selectable(variant, df.value)
                                      \cap (FirstOfOrder(df.value) \cup {Len(df.value)})}
       \/ /\ df = None
          /\ selected_record = None

\* the early returns of prepare_prompt
prompt_absent ==
    /\ pc = "prepare_prompt"
    /\ prepare_prompt(selected_record, df) = None
    /\ prompt' = None
    /\ pc' = "done"
    /\ UNCHANGED <<variant, api_key, order_number, df, selected_record, llm, prediction, schema_rows,
                   schema_context, sql_result, db, sent, outcome, llm_calls, conns>>

\* prepare_prompt to its last line
prompt_built ==
    /\ pc = "prepare_prompt"
    /\ prepare_prompt(selected_record, df) # None
    /\ prompt' = prepare_prompt(selected_record, df)
    /\ pc' = "done"
    /\ UNCHANGED <<variant, api_key, order_number, df, selected_record, llm, prediction, schema_rows,
                   schema_context, sql_result, db, sent, outcome, llm_calls, conns>>

NextPrompt == prompt_absent \/ prompt_built

SpecPrompt == InitPrompt /\ [][NextPrompt]_vars

(***************************************************************************)
(* load_data (order_prediction_sql.py, som_backend/main.py)                *)
(*                                                                         *)
(* A raw row is a row of pd.read_sql: a trend column holds a number, NULL  *)
(* or a text.                                                              *)
(***************************************************************************)
RawNum(n) == [kind |-> "num", v |-> n, s |-> ""]

RawNull == [kind |-> "null", v |-> 0, s |-> ""]

RawText(s) == [kind |-> "text", v |-> 0, s |-> s]

RECURSIVE NumeralValue(_, _)
\* the number the first n digits of s write
NumeralValue(s, n) ==
    IF n = 0 THEN 0
    ELSE 10 * NumeralValue(s, n - 1)
         + (CHOOSE d \in 0..9 : Ch("0123456789", d + 1) = Ch(s, n))

IsNumeral(s) == s # "" /\ \A i \in 1..Len(s) : IsDigit(Ch(s, i))

\* pd.to_numeric(..., errors='coerce') of one value: a number stays, a text
\* that writes a number is parsed, NULL and any other text become NaN
to_numeric(x) ==
    CASE x.kind = "num" -> Num(x.v)
      [] x.kind = "null" -> NaN
      [] OTHER -> IF IsNumeral(x.s) THEN Num(NumeralValue(x.s, Len(x.s))) ELSE NaN

\* the loop over trend_columns
Coerced(row) ==
    Record(row.ORDERNUMBER, row.ORDER_JRNL_CMT_TXT,
           to_numeric(row.TREND_LAG2_STRNT), to_numeric(row.TREND_LAG1_STRNT))

CoercedRows(rows) == [i \in 1..Len(rows) |-> Coerced(rows[i])]

\* a row dropna(subset=trend_columns, how='all') keeps
HasSomeTrend(record) == ~record.TREND_LAG2_STRNT.nan \/ ~record.TREND_LAG1_STRNT.nan

\* with the dropna line left out
DropNaOff(records) == records

\* df.dropna(subset=trend_columns, how='all')
DropNa(records) == SelectSeq(records, HasSomeTrend)

\* df.sort_values('TREND_LAG1_STRNT', ascending=False): the default sort is
\* not stable, so rows of equal value may come out in any order
SortValues(records) ==
    {sorted \in {[i \in 1..Len(records) |-> records[f[i]]] : f \in Permutations(1..Len(records))} :
        IsSorted(sorted)}

\* the frames load_data can return for an answer of the database: None
\* without a connection, when read_sql raises and when it gives no row
load_data(f) ==
    IF f.conn = "fail" \/ f.exec = "raise" \/ f.rows = <<>> THEN {None}
    ELSE {Some(sorted) : sorted \in SortValues(DropNa(CoercedRows(f.rows)))}

RawRows ==
    << Record(1, "Released", RawNum(10), RawNum(20)),
       Record(2, "Held", RawNum(20), RawNum(10)),
       Record(1, "Held", RawNull, RawNum(10)),
       Record(2, "Released", RawNum(10), RawNull),
       Record(1, "Released", RawNull, RawNull),
       Record(2, "Held", RawText("n/a"), RawText("n/a")),
       Record(1, "Held", RawText("n/a"), RawText("15")) >>

RawRowPool == {RawRows[i] : i \in 1..Len(RawRows)}

DataFetches == Fetches(SeqsUpTo(RawRowPool, MaxRecords))

\* load_data answered, and where the caller goes on
loaded(fetches, next) ==
    /\ pc = "load_data"
    /\ \E f \in fetches :
        /\ db' = f
        /\ df' \in load_data(f)
        /\ conns' = [opened |-> conns.opened + Connected(f),
                     closed |-> conns.closed + Closed(f)]
    /\ pc' = next
    /\ UNCHANGED <<variant, api_key, order_number, selected_record, prompt, llm, prediction,
                   schema_rows, schema_context, sql_result, sent, outcome, llm_calls>>

(***************************************************************************)
(* SpecLoad: one call of load_data.                                        *)
(***************************************************************************)
InitLoad ==
    /\ pc = "load_data"
    /\ variant \in PromptVariants
    /\ api_key = TRUE
    /\ order_number = Idle
    /\ prompt = Idle
    /\ llm = None
    /\ prediction = Idle
    /\ llm_calls = 0
    /\ PromptIdle
    /\ QueryIdle

load_data_returns == loaded(DataFetches, "done")

NextLoad == load_data_returns

SpecLoad == InitLoad /\ [][NextLoad]_vars

(***************************************************************************)
(* generate_prediction_for_record (order_prediction_sql.py,                *)
(* som_backend/main.py) and the /predict route of som_backend/main.py.     *)
(***************************************************************************)
MissingKeyResult ==
    Prediction(JStr("Error: Missing environment variables"),
               JStr("Please set GOOGLE_API_KEY in .env file"))

OrderNotFound(n) ==
    Prediction(JStr("Error: Order not found"),
               JStr("Order number " \o ToString(n) \o " was not found in the dataset"))

\* raise HTTPException(status_code=404, ...)
NO_DATA_404 == "404: No data found or connection failed"

\* selected_record.ORDERNUMBER in the first log line, on None
NO_ORDERNUMBER == "'NoneType' object has no attribute 'ORDERNUMBER'"

\* `if not data` of /predict
NoData(data) == IF data = None THEN TRUE ELSE data.value = <<>>

\* next((r for r in all_records if r['ORDERNUMBER'] == order_number), None)
FoundRecord(n, records) ==
    IF \E i \in 1..Len(records) : records[i].ORDERNUMBER = n
    THEN records[MinOf({i \in 1..Len(records) : records[i].ORDERNUMBER = n})]
    ELSE None

\* the record the prompt is prepared for
Selected ==
    IF variant = "som_backend" THEN FoundRecord(order_number, df.value) ELSE selected_record

RecordFetches ==
    Fetches({ <<>>,
              <<RawRows[5]>>,
              <<RawRows[1], RawRows[2], RawRows[4]>> })

OrderNumbers == {1, 2, 3}

(***************************************************************************)
(* SpecRecord: a /predict request of som_backend/main.py, and a call of    *)
(* generate_prediction_for_record of order_prediction_sql.py on a loaded   *)
(* frame. One action for each stretch between two calls out of the process.*)
(***************************************************************************)
LoadedFrames == {None} \cup UNION {load_data(f) : f \in RecordFetches}

RowsOf(frame) == IF frame = None THEN {} ELSE {frame.value[i] : i \in 1..Len(frame.value)}

\* a row of the frame, a record that is not in it, or none
Targets(frame) == {None} \cup RowsOf(frame) \cup {Record(3, "Held", Num(10), Num(20))}

InitRecord ==
    /\ variant \in PromptVariants
    /\ prompt = Idle
    /\ llm = None
    /\ prediction = Idle
    /\ llm_calls = 0
    /\ QueryIdle
    /\ \/ /\ variant = "som_backend"
          /\ pc = "load_data"
          /\ api_key \in BOOLEAN
          /\ order_number \in OrderNumbers
          /\ PromptIdle
       \/ /\ variant = "order_prediction_sql"
          /\ pc = "generate_prediction_for_record"
          /\ api_key \in BOOLEAN
          /\ order_number = Idle
          /\ df \in LoadedFrames
          /\ selected_record \in Targets(df)
       \* prepare_prompt and get_prediction on their own: the key is not read
       \/ /\ pc = "prepare_prompt"
          /\ api_key = TRUE
          /\ order_number = Idle
          /\ df \in LoadedFrames
          /\ selected_record \in Targets(df)

\* /predict: load_data
predict_loads == loaded(RecordFetches, "predict")

\* /predict: `if not data`
predict_no_data ==
    /\ pc = "predict"
    /\ NoData(df)
    /\ prediction' = Raise(NO_DATA_404)
    /\ pc' = "done"
    /\ UNCHANGED <<variant, api_key, order_number, df, selected_record, prompt, llm,
                   schema_rows, schema_context, sql_result, db, sent, outcome,
                   llm_calls, conns>>

\* generate_prediction_for_record has been called
Entered ==
    IF pc = "predict" THEN ~NoData(df) ELSE pc = "generate_prediction_for_record"

\* order_prediction_sql.py: the first log line reads selected_record.ORDERNUMBER
LogLineRaises == variant = "order_prediction_sql" /\ selected_record = None

record_raises ==
    /\ Entered
    /\ LogLineRaises
    /\ prediction' = Raise(NO_ORDERNUMBER)
    /\ pc' = "done"
    /\ UNCHANGED <<variant, api_key, order_number, df, selected_record, prompt, llm,
                   schema_rows, schema_context, sql_result, db, sent, outcome,
                   llm_calls, conns>>

\* `if not GOOGLE_API_KEY`
record_no_key ==
    /\ Entered
    /\ ~LogLineRaises
    /\ ~api_key
    /\ prediction' = Ret(MissingKeyResult)
    /\ pc' = "done"
    /\ UNCHANGED <<variant, api_key, order_number, df, selected_record, prompt, llm,
                   schema_rows, schema_context, sql_result, db, sent, outcome,
                   llm_calls, conns>>

\* som_backend/main.py: `if not selected_record`
record_not_found ==
    /\ Entered
    /\ api_key
    /\ variant = "som_backend"
    /\ Selected = None
    /\ selected_record' = None
    /\ prediction' = Ret(OrderNotFound(order_number))
    /\ pc' = "done"
    /\ UNCHANGED <<variant, api_key, order_number, df, prompt, llm,
                   schema_rows, schema_context, sql_result, db, sent, outcome,
                   llm_calls, conns>>

\* prepare_prompt, and on to get_prediction
record_prompted ==
    /\ Entered
    /\ ~LogLineRaises
    /\ api_key
    /\ Selected # None
    /\ selected_record' = Selected
    /\ prompt' = prepare_prompt(Selected, df)
    /\ pc' = "get_prediction"
    /\ UNCHANGED <<variant, api_key, order_number, df, llm, prediction,
                   schema_rows, schema_context, sql_result, db, sent, outcome,
                   llm_calls, conns>>

\* prepare_prompt called on its own, and get_prediction on what it returned
prompt_prepared ==
    /\ pc = "prepare_prompt"
    /\ prompt' = prepare_prompt(selected_record, df)
    /\ pc' = "get_prediction"
    /\ UNCHANGED <<variant, api_key, order_number, df, selected_record, llm, prediction,
                   schema_rows, schema_context, sql_result, db, sent, outcome,
                   llm_calls, conns>>

NextRecord ==
    \/ predict_loads
    \/ predict_no_data
    \/ record_raises
    \/ record_no_key
    \/ record_not_found
    \/ record_prompted
    \/ prompt_prepared
    \/ generate_content
    \/ return_no_data
    \/ return_prediction

SpecRecord == InitRecord /\ [][NextRecord]_vars

(***************************************************************************)
(* The /predict route of order_prediction_api.py. The requests are served  *)
(* by worker processes of their own; each talks to the database over its   *)
(* own connection. In SpecApi pc, df, prompt, llm, prediction, outcome,    *)
(* llm_calls, sent and conns are functions of the request, and db is the   *)
(* table: its rows, whether it has a trend column, what the row(s) of the  *)
(* maximum Date hold in Predicted_Comment and Prediction_Reason, and the   *)
(* requests whose UPDATE was committed, in the order of the commits.       *)
(***************************************************************************)
Requests == {1, 2}

Table(rows, trend, stored, commits) ==
    [rows |-> rows, trend |-> trend, stored |-> stored, commits |-> commits]

\* raise HTTPException(status_code=..., detail=...)
Http(status_code, detail) == [status_code |-> status_code, detail |-> detail]

\* the dict the route returns
ApiResponse(p, status) ==
    [status_code |-> 200, predicted_comment |-> p.predicted_comment,
     reason |-> p.reason, status |-> status]

NO_TABLE == Http(404, "Invalid server, database, or table combination")

NO_CONNECTION == Http(500, "Failed to connect to database")

NO_ROWS == Http(404, "No data found in the specified table")

\* str(e) of an HTTPException: status and detail, or nothing, by the
\* version of the framework
HttpStr(e) == {ToString(e.status_code) \o ": " \o e.detail, ""}

\* except Exception as e: raise HTTPException(status_code=500, detail=str(e))
Wrapped(details) == {Http(500, d) : d \in details}

\* df[trend_columns].describe() on a frame with no trend column
NO_COLUMNS == "Cannot describe a DataFrame without columns"

READ_FAILED == "Execution failed on sql"

\* the frame pd.read_sql gives, with the commits it was read after
ApiFrame(table) == [rows |-> table.rows, trend |-> table.trend, seen |-> Len(table.commits)]

\* prepare_prompt taking a frame without trend columns
LoadErrorsEmptyOnly(frame) ==
    IF frame.rows = 0 THEN Wrapped(HttpStr(NO_ROWS)) ELSE {}

\* the try block up to prepare_prompt: the exits by an exception
LoadErrors(frame) ==
    IF frame.rows = 0 THEN Wrapped(HttpStr(NO_ROWS))
    ELSE IF ~frame.trend THEN Wrapped({NO_COLUMNS})
    ELSE {}

ApiPrompt == [text |-> "Based on the following order trend data: ..."]

ApiBodies ==
    { "{\"predicted_comment\": \"Released - strength stable\", \"reason\": \"like order 100234\"}",
      "^^^json\n{\"predicted_comment\": \"Held\", \"reason\": \"falling trend\"}\n^^^",
      "{\"predicted_comment\": [\"Held\"], \"reason\": \"r\"}",
      "The order looks stable.",
      "[1, 2]" }

ApiOutcomes == {Responded(b) : b \in ApiBodies} \cup {Failed("503 Service Unavailable")}

\* a value pyodbc cannot bind to a parameter marker
Unbindable(v) == v.t \in {"arr", "obj"}

\* the UPDATE with a test of what the request had read
AppliesIfUnchanged(seen, commits) == seen = Len(commits)

\* WHERE Date = (SELECT MAX(Date) FROM table): the UPDATE applies to the
\* row(s) of the maximum Date whatever was written to them since the load
Applies(seen, commits) == TRUE

\* update_database: fault is what the database does to the statement
UpdateOk(p, fault) ==
    fault = "none" /\ ~Unbindable(p.predicted_comment) /\ ~Unbindable(p.reason)

Updated(table, r, p, seen) ==
    IF Applies(seen, table.commits)
    THEN Table(table.rows, table.trend, p, Append(table.commits, r))
    ELSE table

OpenOne(c) == [opened |-> c.opened + 1, closed |-> c.closed]

CloseOne(c) == [opened |-> c.opened, closed |-> c.closed + 1]

InitApi ==
    /\ pc = [r \in Requests |-> "predict"]
    /\ variant = "order_prediction_api"
    /\ api_key = TRUE
    /\ order_number = Idle
    /\ selected_record = Idle
    /\ df = [r \in Requests |-> Idle]
    /\ prompt = [r \in Requests |-> Idle]
    /\ llm = [r \in Requests |-> None]
    /\ prediction = [r \in Requests |-> Idle]
    /\ outcome = [r \in Requests |-> Idle]
    /\ llm_calls = [r \in Requests |-> 0]
    /\ sent = [r \in Requests |-> <<>>]
    /\ conns = [r \in Requests |-> [opened |-> 0, closed |-> 0]]
    /\ schema_rows = Idle /\ schema_context = Idle /\ sql_result = Idle
    /\ db \in {Table(n, t, None, <<>>) : n \in 0..MaxFrameRows, t \in BOOLEAN}

\* get_table_name gave nothing: the 404 raised before the try block
api_no_table(r) ==
    /\ pc[r] = "predict"
    /\ outcome' = [outcome EXCEPT ![r] = NO_TABLE]
    /\ pc' = [pc EXCEPT ![r] = "done"]
    /\ UNCHANGED <<variant, api_key, order_number, df, selected_record, prompt, llm,
                   prediction, schema_rows, schema_context, sql_result, db, sent,
                   llm_calls, conns>>

\* get_connection gave None
api_no_connection(r) ==
    /\ pc[r] = "predict"
    /\ outcome' = [outcome EXCEPT ![r] = NO_CONNECTION]
    /\ pc' = [pc EXCEPT ![r] = "done"]
    /\ UNCHANGED <<variant, api_key, order_number, df, selected_record, prompt, llm,
                   prediction, schema_rows, schema_context, sql_result, db, sent,
                   llm_calls, conns>>

\* get_table_name and get_connection, up to pd.read_sql
api_connected(r) ==
    /\ pc[r] = "predict"
    /\ conns' = [conns EXCEPT ![r] = OpenOne(@)]
    /\ pc' = [pc EXCEPT ![r] = "read_sql"]
    /\ UNCHANGED <<variant, api_key, order_number, df, selected_record, prompt, llm,
                   prediction, schema_rows, schema_context, sql_result, db, sent,
                   outcome, llm_calls>>

\* pd.read_sql raises; except, finally
api_read_fails(r) ==
    /\ pc[r] = "read_sql"
    /\ sent' = [sent EXCEPT ![r] = Append(@, "SELECT")]
    /\ outcome' = [outcome EXCEPT ![r] = Http(500, READ_FAILED)]
    /\ conns' = [conns EXCEPT ![r] = CloseOne(@)]
    /\ pc' = [pc EXCEPT ![r] = "done"]
    /\ UNCHANGED <<variant, api_key, order_number, df, selected_record, prompt, llm,
                   prediction, schema_rows, schema_context, sql_result, db, llm_calls>>

\* pd.read_sql, then the 404 on an empty frame or the exception of
\* prepare_prompt; except, finally
api_load_rejected(r) ==
    /\ pc[r] = "read_sql"
    /\ sent' = [sent EXCEPT ![r] = Append(@, "SELECT")]
    /\ df' = [df EXCEPT ![r] = ApiFrame(db)]
    /\ \E e \in LoadErrors(ApiFrame(db)) : outcome' = [outcome EXCEPT ![r] = e]
    /\ conns' = [conns EXCEPT ![r] = CloseOne(@)]
    /\ pc' = [pc EXCEPT ![r] = "done"]
    /\ UNCHANGED <<variant, api_key, order_number, selected_record, prompt, llm,
                   prediction, schema_rows, schema_context, sql_result, db, llm_calls>>

\* pd.read_sql and prepare_prompt, up to model.generate_content
api_loaded(r) ==
    /\ pc[r] = "read_sql"
    /\ LoadErrors(ApiFrame(db)) = {}
    /\ sent' = [sent EXCEPT ![r] = Append(@, "SELECT")]
    /\ df' = [df EXCEPT ![r] = ApiFrame(db)]
    /\ prompt' = [prompt EXCEPT ![r] = ApiPrompt]
    /\ pc' = [pc EXCEPT ![r] = "get_prediction"]
    /\ UNCHANGED <<variant, api_key, order_number, selected_record, llm, prediction,
                   schema_rows, schema_context, sql_result, db, outcome, llm_calls, conns>>

\* get_prediction, up to cursor.execute
api_predicted(r) ==
    /\ pc[r] = "get_prediction"
    /\ \E l \in ApiOutcomes :
        /\ llm' = [llm EXCEPT ![r] = l]
        /\ prediction' = [prediction EXCEPT ![r] = get_prediction_api(prompt[r], l)]
    /\ llm_calls' = [llm_calls EXCEPT ![r] = @ + 1]
    /\ pc' = [pc EXCEPT ![r] = "update_database"]
    /\ UNCHANGED <<variant, api_key, order_number, df, selected_record, prompt,
                   schema_rows, schema_context, sql_result, db, sent, outcome, conns>>

\* update_database (the UPDATE and its commit) and the rest of the route
api_updated(r) ==
    /\ pc[r] = "update_database"
    /\ sent' = [sent EXCEPT ![r] = Append(@, "UPDATE")]
    /\ \E fault \in {"none", "execute", "commit"} :
        IF UpdateOk(prediction[r].value, fault)
        THEN /\ db' = Updated(db, r, prediction[r].value, df[r].seen)
             /\ outcome' = [outcome EXCEPT ![r] =
                    ApiResponse(prediction[r].value, "Database updated successfully")]
        ELSE /\ db' = db
             /\ outcome' = [outcome EXCEPT ![r] =
                    ApiResponse(prediction[r].value, "Failed to update database")]
    /\ conns' = [conns EXCEPT ![r] = CloseOne(@)]
    /\ pc' = [pc EXCEPT ![r] = "done"]
    /\ UNCHANGED <<variant, api_key, order_number, df, selected_record, prompt, llm,
                   prediction, schema_rows, schema_context, sql_result, llm_calls>>

NextApi ==
    \E r \in Requests :
        \/ api_no_table(r)
        \/ api_no_connection(r)
        \/ api_connected(r)
        \/ api_read_fails(r)
        \/ api_load_rejected(r)
        \/ api_loaded(r)
        \/ api_predicted(r)
        \/ api_updated(r)

SpecApi == InitApi /\ [][NextApi]_vars

(***************************************************************************)
(* SpecPipelines: one request, to either pipeline.                         *)
(***************************************************************************)
InitPipelines == InitRecord \/ InitQuery

NextPipelines == NextRecord \/ NextQuery

SpecPipelines == InitPipelines /\ [][NextPipelines]_vars

(***************************************************************************)
(* Claims about prepare_schema_context (SpecSchema)                        *)
(***************************************************************************)
ContextBuilt == schema_context # Idle

\* a name that contains 'sold_to' in any letter case
NamesSoldTo(name) == \E i \in 1..Len(name) : StartsAt(Lower(name), i, "sold_to")

ContextLines == {schema_context.lines[i] : i \in 1..Len(schema_context.lines)}

\* C2: the schema context that prepare_schema_context builds lists no
\* column whose name contains 'sold_to' in any letter case, neither on a
\* column line of a table nor as either end of a foreign-key line.
C2_NoSoldToInContext ==
    ContextBuilt =>
        \A l \in ContextLines :
            /\ l.kind = "column" => ~NamesSoldTo(l.column_name)
            /\ l.kind = "fk" =>
                    ~NamesSoldTo(l.parent_column) /\ ~NamesSoldTo(l.referenced_column)

\* the catalogue held a sold_to column of a user table and a relationship
\* on a sold_to column, and the context lists columns and relationships
C2_Witness ==
    /\ ContextBuilt
    /\ \E i \in 1..Len(schema_rows.tables.rows) :
            /\ schema_rows.tables.rows[i].schema_name = "dbo"
            /\ NamesSoldTo(schema_rows.tables.rows[i].column_name)
    /\ \E i \in 1..Len(schema_rows.fks.rows) :
            NamesSoldTo(schema_rows.fks.rows[i].referenced_column)
    /\ \E l \in ContextLines : l.kind = "column"
    /\ \E l \in ContextLines : l.kind = "fk"

(***************************************************************************)
(* Claims about nl_to_sql and execute_query_with_user_feedback (SpecQuery)  *)
(***************************************************************************)
Normalized == sql_result # Idle

\* a string value that contains 'sold_to' in any letter case
MentionsSoldTo(v) ==
    v.t = "str" /\ \E j \in 1..Len(v.s) : Lower(SubSeq(v.s, j, Min(j + 6, Len(v.s)))) = "sold_to"

\* C3: no column whose name contains 'sold_to' appears in the SQL query
\* that nl_to_sql returns, nor in a query that
\* execute_query_with_user_feedback hands to the database.
C3_NoSoldToInSql ==
    /\ Normalized => ~MentionsSoldTo(sql_result.r.value.sql_query)
    /\ \A i \in 1..Len(sent) : ~MentionsSoldTo(sent[i])

\* the response text after the two re.sub calls
Stripped == StripFences(llm.text)

\* C8: nl_to_sql makes its attempts in one order, json.loads, then
\* re.search, then the failure dict: re.search runs only after json.loads
\* failed on the fence-stripped text, the failure dict is returned only
\* after both failed, and a response that json.loads accepts is answered
\* from the decoded value alone, also when its text holds a SELECT.
C8_AttemptOrder ==
    Normalized =>
        /\ sql_result.steps \in {<<>>, <<"json">>, <<"json", "regex">>,
                                 <<"json", "regex", "fail">>}
        /\ sql_result.steps = <<>> <=> llm.raises
        /\ Len(sql_result.steps) >= 2 => ~DecodedResponse.ok
        /\ Len(sql_result.steps) = 3 => ~DecodedResponse.ok /\ SelectStart(Stripped) = 0
        /\ sql_result.r.value = ParseFailedSql =>
                GotText /\ ~DecodedResponse.ok /\ SelectStart(Stripped) = 0
        /\ GotText /\ DecodedResponse.ok => sql_result.steps = <<"json">>
        /\ GotText /\ DecodedResponse.ok /\ SelectStart(Stripped) # 0 =>
                sql_result.r.value # ExtractedSql(Strip(From(Stripped, SelectStart(Stripped))))

\* a response that is a JSON object and holds a SELECT was answered from
\* the decoded object
C8_Witness ==
    /\ Normalized
    /\ GotText
    /\ DecodedResponse.ok
    /\ DecodedResponse.val.t = "obj"
    /\ SelectStart(Stripped) # 0
    /\ sql_result.steps = <<"json">>
    /\ sql_result.r.value = SqlFields(DecodedResponse.val)

\* the response is text that json.loads rejects and re.search finds no
\* SELECT in
IsProse == GotText /\ ~DecodedResponse.ok /\ SelectStart(Stripped) = 0

\* a string value that contains "Could not generate a valid SQL query"
SaysNoQuery(v) ==
    v.t = "str" /\ Contains("Could not generate a valid SQL query", v.s)

STATEMENT == "SELECT TOP 10 * FROM Orders"

\* C10: on malformed JSON whose text holds the statement
\* SELECT TOP 10 * FROM Orders, nl_to_sql returns exactly that statement as
\* sql_query, with none of the text around it, and the explanation
\* "SQL query extracted from non-JSON response.".
C10_ExtractsExactlyTheStatement ==
    Normalized /\ GotText /\ ~DecodedResponse.ok /\ Contains(STATEMENT, Stripped) =>
        sql_result.r.value = ExtractedSql(STATEMENT)

(***************************************************************************)
(* Claims about prepare_prompt (SpecPrompt)                                *)
(***************************************************************************)
PromptBuilt == pc = "done" /\ prompt # None /\ prompt # Idle /\ df # Idle

\* the rows of the frame that do not carry the selected order number
OtherRows == {i \in 1..Len(df.value) : df.value[i].ORDERNUMBER # selected_record.ORDERNUMBER}

\* the place of row i among them
PlaceOf(i) == Cardinality({j \in OtherRows : j <= i})

\* C1: for a non-empty frame and a selected record of it, the comparison
\* list of the prompt is the frame without the rows that carry the selected
\* record's ORDERNUMBER, in the frame's order, cut to its first 500 rows:
\* it holds no row of the selected order and at most 500 entries.
C1_ComparisonList ==
    PromptBuilt =>
        /\ Len(prompt.other_records_data) = Min(500, Cardinality(OtherRows))
        /\ \A i \in OtherRows :
              PlaceOf(i) <= 500 =>
                /\ prompt.other_records_data[PlaceOf(i)].order_number = df.value[i].ORDERNUMBER
                /\ prompt.other_records_data[PlaceOf(i)].comment = df.value[i].ORDER_JRNL_CMT_TXT
                /\ prompt.other_records_data[PlaceOf(i)].trends.TREND_LAG2_STRNT
                        = df.value[i].TREND_LAG2_STRNT
                /\ prompt.other_records_data[PlaceOf(i)].trends.TREND_LAG1_STRNT
                        = df.value[i].TREND_LAG1_STRNT
        /\ \A k \in 1..Len(prompt.other_records_data) :
              prompt.other_records_data[k].order_number # selected_record.ORDERNUMBER
        /\ Len(prompt.other_records_data) <= 500

\* a frame with more than 500 rows of other orders, some of them after rows
\* of the selected order, gave a list of 500
C1_Witness ==
    /\ PromptBuilt
    /\ Cardinality(OtherRows) > 500
    /\ \E i \in OtherRows : \E j \in 1..Len(df.value) : j < i /\ j \notin OtherRows
    /\ Len(prompt.other_records_data) = 500

(***************************************************************************)
(* Claims about load_data (SpecLoad)                                       *)
(***************************************************************************)
Loaded == pc = "done" /\ df # Idle /\ df # None

\* a raw value that is a number or writes one
IsNumericRaw(x) == x.kind = "num" \/ (x.kind = "text" /\ IsNumeral(x.s))

\* the raw rows with a numeric value in some trend column
NumericRawRows ==
    {i \in 1..Len(db.rows) :
        IsNumericRaw(db.rows[i].TREND_LAG2_STRNT) \/ IsNumericRaw(db.rows[i].TREND_LAG1_STRNT)}

\* C16: every record of the set load_data returns has a number in at least
\* one trend field; the rows whose trend fields are all missing or
\* non-numeric are removed, and only those.
C16_SomeTrendInEveryRecord ==
    Loaded =>
        /\ \A i \in 1..Len(df.value) :
              ~df.value[i].TREND_LAG2_STRNT.nan \/ ~df.value[i].TREND_LAG1_STRNT.nan
        /\ Len(df.value) = Cardinality(NumericRawRows)

\* the database gave a row with no numeric trend among rows with one
C16_Witness ==
    /\ Loaded
    /\ Cardinality(NumericRawRows) < Len(db.rows)
    /\ df.value # <<>>

(***************************************************************************)
(* Claims about the prediction pipeline (SpecRecord)                       *)
(***************************************************************************)
\* an exception left generate_prediction_for_record (the 404 of /predict is
\* raised by the route itself, after load_data returned)
Escaped == prediction # Idle /\ prediction.raised /\ prediction.exc # NO_DATA_404

\* C11 as stated: no exception escapes generate_prediction_for_record,
\* whatever the selected record, the record set and the outcome of the LLM
\* call are. order_prediction_sql.py violates it on a selected record of None.
C11_NoExceptionEscapes == ~Escaped

\* prepare_prompt has returned
Prepared == pc \in {"get_prediction", "responded", "done"} /\ prompt # Idle

\* C15: on a record set that is None or empty, or a target record of None,
\* prepare_prompt returns None; get_prediction on a prompt of None returns
\* the 'Error: No data available for prediction' result and the LLM was
\* never called.
C15_NoDataGivesSentinel ==
    /\ Prepared /\ (NoData(df) \/ selected_record = None) => prompt = None
    /\ Prepared /\ prompt = None =>
          /\ pc # "responded"
          /\ llm_calls = 0
          /\ pc = "done" => prediction = Ret(NoDataResult)

C15_Witness ==
    /\ pc = "done"
    /\ ~NoData(df)
    /\ selected_record = None
    /\ prompt = None
    /\ prediction = Ret(NoDataResult)

\* a trends dictionary as the prompt holds it
Finite(trends) == ~trends.TREND_LAG2_STRNT.nan /\ ~trends.TREND_LAG1_STRNT.nan

\* C17 as stated: every trend value written into the prompt is a finite
\* number; a record with an absent trend value is left out of the prompt
\* or leaves no prompt at all. The code writes such a record with NaN.
C17_FiniteTrendsInPrompt ==
    Prepared /\ prompt # None =>
        /\ Finite(prompt.selected_trends)
        /\ \A i \in 1..Len(prompt.other_records_data) :
               Finite(prompt.other_records_data[i].trends)

\* C14 as stated: with no API key configured, a prediction request ends in
\* the 'Error: Missing environment variables' result, and up to then no
\* database connection was opened and no LLM request was sent. The /predict
\* route of som_backend/main.py calls load_data before the key is tested.
C14_KeyTestedFirst ==
    ~api_key =>
        /\ conns.opened = 0
        /\ llm_calls = 0
        /\ pc = "done" /\ ~Escaped => prediction = Ret(MissingKeyResult)

(***************************************************************************)
(* Claims about execute_query_with_user_feedback (SpecQuery)               *)
(***************************************************************************)
Returned == pc = "done" /\ outcome # Idle

ResultKeys == {"success", "results", "message", "summary", "sql_query"}

\* C12 as stated: every result of execute_query_with_user_feedback has the
\* keys success, results, message, summary and sql_query, on failure as on
\* success. The two early returns carry no sql_query.
C12_SameKeysOnEveryResult == Returned => DOMAIN outcome = ResultKeys

\* the three stages, by what their functions returned
SchemaRetrievalFailed == get_table_schema(schema_rows.tables) = None

GenerationFailed == sql_result # Idle /\ NoQuery(sql_result.r.value)

ExecutionStageFailed == db # Idle /\ execute_sql_query(db) = None

NoRowsFound == db # Idle /\ execute_sql_query(db) # None /\ db.frame.rows = 0

RowsFound == db # Idle /\ execute_sql_query(db) # None /\ db.frame.rows > 0

FailureMessages == {NoSchema.message, NotUnderstood.message, ExecutionFailed("").message}

\* C13 as stated: success is false exactly when the schema retrieval, the
\* SQL generation or the SQL execution failed; a query that ran and gave
\* no row is a success with the 'No records found' message; the messages
\* of a failure, of an empty result and of a non-empty result differ. A
\* schema that was retrieved and holds the text "Error:" is answered as a
\* failure.
C13_FailureExactlyOnFailedStage ==
    Returned =>
        /\ ~outcome.success <=>
              SchemaRetrievalFailed \/ GenerationFailed \/ ExecutionStageFailed
        /\ NoRowsFound =>
              /\ outcome.success
              /\ outcome.message = NoRecords(db.frame, "").message
              /\ outcome.message \notin FailureMessages
        /\ RowsFound =>
              /\ outcome.success
              /\ outcome.message \notin FailureMessages
              /\ outcome.message # NoRecords(db.frame, "").message

TableLineCount(context) ==
    Cardinality({i \in 1..Len(context.lines) : context.lines[i].kind = "table"})

NoTablesFetched ==
    /\ ~SchemaRetrievalFailed
    /\ get_table_schema(schema_rows.tables).value = <<>>

\* C19 as stated: the error text is the context exactly when the schema
\* fetch failed; a schema of no table gives a description without table
\* entries and the LLM is still called; the connection-failure result is
\* returned only when the metadata fetch failed. The test for the failure
\* is a search for "Error:" in the context, which a fetched name can hold.
C19_FailedFetchToldFromEmptySchema ==
    ContextBuilt =>
        /\ schema_context = ErrorContext <=> SchemaRetrievalFailed
        /\ NoTablesFetched =>
              /\ TableLineCount(schema_context) = 0
              /\ pc \in {"nl_to_sql", "execute_sql_query"} \/ llm_calls = 1
        /\ Returned /\ outcome = NoSchema => SchemaRetrievalFailed

(***************************************************************************)
(* Claims about the size of the schema context (SpecSchema)                *)
(***************************************************************************)
KindCount(lines, kind) == Cardinality({i \in 1..Len(lines) : lines[i].kind = kind})

Listed(lines) == {lines[i].table : i \in {k \in 1..Len(lines) : lines[k].kind = "table"}}

\* no more than n column lines in a row
ColumnRunsWithin(lines, n) ==
    \A i \in 1..(Len(lines) - n) : \E k \in i..(i + n) : lines[k].kind # "column"

\* no table that is left out has more columns than one that is listed
MostColumnsListed(lines, items) ==
    \A i, j \in 1..Len(items) :
        items[i].table \in Listed(lines) /\ items[j].table \notin Listed(lines)
            => Len(items[i].columns) >= Len(items[j].columns)

ContextWithinCaps(lines, items) ==
    /\ KindCount(lines, "table") = Min(MaxTables, Len(items))
    /\ Listed(lines) \subseteq {items[i].table : i \in 1..Len(items)}
    /\ MostColumnsListed(lines, items)
    /\ ColumnRunsWithin(lines, MaxColumns)
    /\ KindCount(lines, "fk") <= MaxFks

\* C18: the schema context lists at most 50 tables, and they are tables
\* with the most non-sensitive columns; at most 20 columns of each table;
\* at most 100 foreign-key relationships.
C18_ContextWithinCaps ==
    ContextBuilt /\ ~SchemaRetrievalFailed =>
        ContextWithinCaps(schema_context.lines, get_table_schema(schema_rows.tables).value)

C18_Witness ==
    /\ ContextBuilt
    /\ ~SchemaRetrievalFailed
    /\ Len(get_table_schema(schema_rows.tables).value) > MaxTables
    /\ \E i \in 1..Len(get_table_schema(schema_rows.tables).value) :
            Len(get_table_schema(schema_rows.tables).value[i].columns) > MaxColumns
    /\ Len(schema_rows.fks.rows) > MaxFks
    /\ KindCount(schema_context.lines, "table") = MaxTables
    /\ KindCount(schema_context.lines, "fk") = MaxFks

(***************************************************************************)
(* Claims about both pipelines (SpecPipelines)                             *)
(***************************************************************************)
\* C20: nothing is tried again. One call of generate_prediction_for_record
\* calls the LLM at most once; one call of execute_query_with_user_feedback
\* calls the LLM at most once and sends at most one query to the database,
\* whatever failed.
C20_NothingRetried ==
    /\ llm_calls <= 1
    /\ Len(sent) <= 1

C20_Witness ==
    /\ Returned
    /\ ExecutionStageFailed
    /\ llm_calls = 1
    /\ Len(sent) = 1

\* C21 as stated: one run of the prediction pipeline and one run of
\* execute_query_with_user_feedback each open one database connection, no
\* more. get_table_schema, get_foreign_keys and execute_sql_query each call
\* get_db_connection.
C21_OneConnectionPerRun ==
    /\ conns.opened <= 1
    /\ Returned /\ outcome.success => conns.opened = 1

\* C27 as stated: when get_table_schema, get_foreign_keys, execute_sql_query
\* or load_data has returned, it has closed the connection it opened, also
\* when the query raised. conn.close() is the statement after the query,
\* inside the try block.
C27_EveryConnectionClosed == conns.closed = conns.opened

(***************************************************************************)
(* Claims about the round trip of get_prediction (SpecPredict)             *)
(***************************************************************************)
\* C22 as stated: when get_prediction returned p, get_prediction on the
\* response json.dumps(p) returns p again, also when a field of p holds
\* the fence characters and when p is one of the 'Error: ...' results. The
\* fence removal runs on the whole response text, field values included.
C22_RoundTrip ==
    pc = "done" /\ prediction # Idle /\ ~prediction.raised =>
        /\ ~Renormalized(prediction.value).raised
        /\ PyPrediction(Renormalized(prediction.value).value) = PyPrediction(prediction.value)

(***************************************************************************)
(* Claims about the results of nl_to_sql (SpecQuery)                       *)
(***************************************************************************)
Generated == sql_result # Idle

SqlQuery == sql_result.r.value.sql_query

Explanation == sql_result.r.value.explanation

LlmRaised == llm.raises

\* json.loads accepted the response, fences removed
Parseable == ~llm.raises /\ json_loads(StripFences(llm.text)).ok

\* ... and what it decoded is no dict
NotAnObject == Parseable /\ json_loads(StripFences(llm.text)).val.t # "obj"

SelectFound == ~llm.raises /\ SelectStart(StripFences(llm.text)) # 0

NonEmptyText(v) == v.t = "str" /\ v.s # ""

\* C24 as stated: sql_query is empty exactly when the LLM call raised or
\* the response was neither parseable JSON nor matched by the SELECT scan,
\* and then the explanation is a non-empty message; in every other case
\* sql_query is not empty. A response that is JSON but no object gives an
\* empty sql_query too.
C24_EmptyQueryOnlyOnListedFailures ==
    Generated =>
        /\ SqlQuery = JStr("") <=> LlmRaised \/ (~Parseable /\ ~SelectFound)
        /\ SqlQuery = JStr("") => NonEmptyText(Explanation)
        /\ SqlQuery # JStr("") => Truthy(SqlQuery)

\* C24 amended: sql_query is empty exactly when the LLM call raised, when
\* the response is JSON but no object, or when it was neither parseable
\* JSON nor matched by the SELECT scan; the explanation is then a non-empty
\* message; in every other case sql_query is not empty.
C24_EmptyQueryOnlyOnFailure ==
    Generated =>
        /\ SqlQuery = JStr("") <=>
              LlmRaised \/ NotAnObject \/ (~Parseable /\ ~SelectFound)
        /\ SqlQuery = JStr("") => NonEmptyText(Explanation)
        /\ SqlQuery # JStr("") => Truthy(SqlQuery)

C24_Witness ==
    /\ Generated
    /\ NotAnObject
    /\ SqlQuery = JStr("")
    /\ NonEmptyText(Explanation)

\* C25: the stages of execute_query_with_user_feedback run in sequence and
\* a failed stage stops the later ones: no LLM call after a failed schema
\* retrieval, no query sent to the database after an empty sql_query, and
\* success is true only when the schema was retrieved, then a query was
\* generated, then it was executed.
C25_StagesInSequence ==
    /\ Generated => ContextBuilt
    /\ db # Idle => Generated
    /\ ContextBuilt /\ SchemaRetrievalFailed =>
          llm_calls = 0 /\ ~Generated /\ db = Idle /\ sent = <<>>
    /\ Generated /\ SqlQuery = JStr("") => db = Idle /\ sent = <<>>
    /\ Returned /\ outcome.success =>
          /\ ContextBuilt /\ ~SchemaRetrievalFailed
          /\ Generated /\ SqlQuery # JStr("")
          /\ db # Idle /\ ~ExecutionStageFailed
          /\ sent = <<SqlQuery>>

C25_Witness ==
    /\ Returned
    /\ Generated
    /\ SqlQuery = JStr("")
    /\ conns.opened > 0
    /\ llm_calls = 1
    /\ db = Idle

\* json.loads gave a dict whose sql_query is missing or falsy
NoQueryInJson ==
    /\ Parseable
    /\ ~NotAnObject
    /\ ~Truthy(DictGet(json_loads(StripFences(llm.text)).val, "sql_query", JNull))

\* C26 as stated: when the response is valid JSON whose sql_query is
\* missing or empty, no statement is sent to the database and the result
\* is the 'couldn't understand your question' failure. nl_to_sql puts the
\* placeholder text in sql_query, and that text is not empty.
C26_PlaceholderNeverExecuted ==
    Generated /\ NoQueryInJson =>
        /\ sent = <<>>
        /\ db = Idle
        /\ pc = "done" /\ outcome = NotUnderstood

FallbackReached == Generated /\ ~LlmRaised /\ ~Parseable

\* the places of the letters 'select', in any letter case, that have a
\* character after them
SelectPlaces(text) ==
    {j \in 1..Len(text) : j + 6 <= Len(text) /\ Lower(SubSeq(text, j, j + 5)) = "select"}

\* C28: when json.loads rejected the response, sql_query is not empty
\* exactly when the text, fences removed, holds the letters 'select' in any
\* letter case followed by at least one character; it is then the text
\* from the first such place to the end, stripped, whatever follows the
\* statement.
C28_FallbackTakesRestOfText ==
    FallbackReached =>
        /\ SqlQuery # JStr("") <=> SelectPlaces(StripFences(llm.text)) # {}
        /\ SelectPlaces(StripFences(llm.text)) # {} =>
              SqlQuery = JStr(Strip(From(StripFences(llm.text),
                                         MinOf(SelectPlaces(StripFences(llm.text))))))

C28_Witness ==
    /\ FallbackReached
    /\ SqlQuery = JStr("select TOP 10 * FROM Orders to see them. Hope this helps!")

(***************************************************************************)
(* Claims about the /predict route of order_prediction_api (SpecApi)       *)
(***************************************************************************)
Answered(r) == pc[r] = "done"

TableRead(r) == df[r] # Idle

UpdateCount(r) == Cardinality({i \in 1..Len(sent[r]) : sent[r][i] = "UPDATE"})

Committed(r) == \E i \in 1..Len(db.commits) : db.commits[i] = r

SaysUpdated(r) ==
    /\ outcome[r] # Idle
    /\ outcome[r].status_code = 200
    /\ outcome[r].status = "Database updated successfully"

\* C23: the write-back has no test of what was written since the load. A
\* request's UPDATE is applied whenever the database accepts it, also when
\* another request committed in between, and the table holds the
\* prediction of the request that committed last, while the one that
\* committed before it was told 'Database updated successfully' as well.
C23_LastCommitWins ==
    /\ db.commits # <<>> =>
          db.stored = prediction[db.commits[Len(db.commits)]].value
    /\ \A r \in Requests : Committed(r) <=> Answered(r) /\ SaysUpdated(r)

C23_Witness ==
    /\ db.commits = <<2, 1>>
    /\ df[1].seen = 0
    /\ prediction[1] # prediction[2]
    /\ db.stored = prediction[1].value
    /\ SaysUpdated(2)

\* C29 as stated: a table query that gives no row is answered with status
\* 404 and the detail 'No data found in the specified table', without an
\* LLM call and without an UPDATE. The 404 is raised inside the try block,
\* whose `except Exception` turns it into a 500.
C29_EmptyTableIs404 ==
    \A r \in Requests :
        Answered(r) /\ TableRead(r) /\ df[r].rows = 0 =>
            /\ outcome[r] = NO_ROWS
            /\ llm_calls[r] = 0
            /\ UpdateCount(r) = 0

\* C30 as stated: a request whose load gave at least one row issues the
\* UPDATE once, whatever get_prediction returned, and the table is left
\* as it was only when the load is empty or raises.
C30_UpdateOnceWheneverRowsLoaded ==
    \A r \in Requests :
        Answered(r) /\ TableRead(r) /\ df[r].rows > 0 =>
            UpdateCount(r) = 1 /\ Committed(r)

\* C30 amended: the UPDATE is issued once by every request whose load gave
\* at least one row and whose prompt could be built (the table has a trend
\* column), whatever get_prediction returned, an 'Error: ...' result
\* included, and by no other request; the table is changed by the requests
\* whose UPDATE the database accepted and committed, and only by them.
C30_UpdateOnceWhenPrompted ==
    \A r \in Requests :
        Answered(r) =>
            /\ prompt[r] # Idle <=> TableRead(r) /\ df[r].rows > 0 /\ df[r].trend
            /\ UpdateCount(r) = IF prompt[r] # Idle THEN 1 ELSE 0
            /\ UpdateCount(r) = 1 =>
                  /\ llm_calls[r] = 1
                  /\ outcome[r].status_code = 200
                  /\ outcome[r].predicted_comment = prediction[r].value.predicted_comment
                  /\ outcome[r].reason = prediction[r].value.reason
            /\ Committed(r) <=> SaysUpdated(r)
            /\ Committed(r) =>
                  /\ UpdateCount(r) = 1
                  /\ db.commits[Len(db.commits)] = r => db.stored = prediction[r].value

C30_Witness ==
    /\ Answered(1)
    /\ prediction[1] = Ret(ParseFailureResult)
    /\ UpdateCount(1) = 1
    /\ db.commits = <<1>>
    /\ db.stored = ParseFailureResult

=============================================================================
